---- MODULE Spec2Model ----
(***************************************************************************)
(* Model of the usb-pwm-fan host utilities:                                *)
(*   util/usb_fan_config.py     BOS descriptor scan, device enumeration,   *)
(*                              register channel, command dispatch         *)
(*   util/atmega32u4_upload.py  bootloader port detection, firmware upload *)
(*                                                                         *)
(* Python indexes from 0 and TLA+ sequences from 1: At(buf, i) is buf[i]   *)
(* and PySlice(buf, a, b) is buf[a:b].                                     *)
(***************************************************************************)
EXTENDS Integers, Sequences, FiniteSets, TLC

VARIABLES
    gen,          \* check_bos: how the buffer under scan was laid out
    buf,          \* check_bos: the descriptor bytes handed to the scanner
    bos,          \* check_bos: what the call produced (NoBos before the call)
    attached,     \* the USB devices on the bus, in enumeration order
    argv,         \* the command line as given
    opts,         \* the argparse namespace of usb_fan_config.py
    pc,           \* where main() of usb_fan_config.py stands
    devs,         \* main: the list find_fan_devs returned
    cur,          \* main: position in devs of the device handled next
    ops,          \* every register transfer issued so far, in order
    skipped,      \* the devices check_and_run refused on their version
    rc,           \* the exit status of the process once it has ended
    up,           \* upload_firmware: its opts and reboot arguments
    bpc,          \* where upload_firmware / get_bootloader_port stands
    before,       \* get_bootloader_port: the set `before`
    snapshot,     \* get_bootloader_port: what list_ports.comports() last returned
    comports,     \* what list_ports.comports() returns now, where the ports are followed
    history,      \* get_bootloader_port: the pairs `before` first held, and those of
                  \* them a completed poll did not see
    now,          \* time.monotonic()
    start_time,   \* get_bootloader_port: start_time
    reboots,      \* calls of reboot() made by the current get_bootloader_port
    polls,        \* loop iterations begun by the current get_bootloader_port
    sleeps,       \* time.sleep(0.1) calls made by the current get_bootloader_port
    port,         \* the port get_bootloader_port returned (None: not found)
    interrupted,  \* a KeyboardInterrupt was caught by upload_firmware
    flashes,      \* the ports avrdude was started on, in order
    handles,      \* the serial handles opened and closed so far, in order
    line,         \* SerialFanDevice.read_register: the register asked for and
                  \* what each read(1) of the serial port returns
    reply,        \* SerialFanDevice.read_register: what the call produced
    twin,         \* one device behind a serial channel, its like behind a USB one
    call,         \* the facade call made last on both channels, with its results
    given         \* the frequency a set_frequency / get_frequency round trip is run on

bosVars == <<gen, buf, bos>>
cliVars == <<attached, argv, opts, pc, devs, cur, ops, skipped, rc>>
bootVars == <<up, bpc, before, snapshot, history, now, start_time, reboots, polls, sleeps, port,
              interrupted, flashes>>
chanVars == <<line, reply, twin, call, given>>
vars == <<gen, buf, bos, attached, argv, opts, pc, devs, cur, ops, skipped, rc, up, bpc, before,
          snapshot, history, now, start_time, reboots, polls, sleeps, port, interrupted,
          flashes, comports,
          handles, line, reply, twin, call, given>>

----------------------------------------------------------------------------
(* Bounds of the model *)

\* Most capability descriptors laid out in one generated BOS buffer.
MaxCaps == 2

\* Most USB devices attached to the bus.
MaxDevs == 2

\* Largest value given to --index.
MaxIndex == 1

\* Largest --timeout given, in clock ticks.
MaxTimeout == 2

\* Most the clock advances between two readings of it.
MaxDt == 1

\* Most polls of one get_bootloader_port call that are followed.
MaxPolls == 3

\* Most read(1) calls of one SerialFanDevice.read_register that are answered
\* from the wire; every later one times out.
MaxRx == 5

----------------------------------------------------------------------------
(* Constants of usb_fan_config.py *)

DESCRIPTOR_TYPE_BOS == 15
DESCRIPTOR_TYPE_DEVICE_CAPABILITY == 16
CAPABILITY_TYPE_PLATFORM == 5

DEVICE_MAJOR == 1
DEVICE_MINOR == 0

REGISTER_PWM_DUTY1 == 16
REGISTER_PWM_PERIOD == 17
REGISTER_TACHOMETER1 == 18
REGISTER_RESET_CONTROL == 240
REGISTER_LED_CONTROL == 241
REGISTER_CONFIG_CONTROL == 242
REGISTER_SERIAL_NUMBER == 248

LED_MODES == <<"alert", "on", "off", "blink">>
RESET_MODES == <<"config", "reboot", "bootloader", "factory">>

\* Python's None where the model needs it among integers
None == -1

\* Python's None where the model needs it among port names
NoPort == "None"

\* uuid.UUID("{1ad9f93b-494c-4dda-a1e5-2e2bab181052}").bytes
DEVICE_UUID ==
    <<26, 217, 249, 59, 73, 76, 77, 218, 161, 229, 46, 43, 171, 24, 16, 82>>

----------------------------------------------------------------------------
(* Python sequence helpers *)

Min(a, b) == IF a < b THEN a ELSE b

\* The marker a read outside the buffer yields (Python raises IndexError).
OOB == -1

\* buf[i] for i >= 0
At(b, i) == IF i < Len(b) THEN b[i + 1] ELSE OOB

\* buf[a:b] for 0 <= a: slices clamp to the buffer and never raise
PySlice(b, lo, hi) ==
    IF lo >= Min(hi, Len(b)) THEN <<>> ELSE SubSeq(b, lo + 1, Min(hi, Len(b)))

\* uuid.UUID(bytes_le=b).bytes: the first three fields are stored
\* little-endian, the last eight bytes as they are
UuidFromBytesLE(b) ==
    <<b[4], b[3], b[2], b[1], b[6], b[5], b[8], b[7]>> \o SubSeq(b, 9, 16)

----------------------------------------------------------------------------
(* UuidFinder.check_bos *)

Brk(stop, reads) == [stop |-> stop, reads |-> reads]

\* BosChecks without the test of the declared length against the bytes left
BosChecksNoOverrun(b, end, pos) ==
    LET remain == end - pos
        len    == At(b, pos)
        type   == At(b, pos + 1)
    IN  IF remain < 3 THEN Brk("remain", {})
        ELSE IF len = OOB THEN Brk("IndexError", {pos})
        ELSE IF len < 3 THEN Brk("length", {pos})
        ELSE IF type = OOB THEN Brk("IndexError", {pos, pos + 1})
        ELSE IF type # DESCRIPTOR_TYPE_DEVICE_CAPABILITY THEN Brk("type", {pos, pos + 1})
        ELSE Brk("", {pos, pos + 1})

\* BosChecks without the test of the descriptor type
BosChecksNoType(b, end, pos) ==
    LET remain == end - pos
        len    == At(b, pos)
    IN  IF remain < 3 THEN Brk("remain", {})
        ELSE IF len = OOB THEN Brk("IndexError", {pos})
        ELSE IF len < 3 THEN Brk("length", {pos})
        ELSE IF len > remain THEN Brk("overrun", {pos})
        ELSE Brk("", {pos})

\* The checks at the head of the loop body, in the source's order of
\* evaluation (the `or` chain short-circuits): the check that breaks out of
\* the walk at cursor pos ("" when none does) and the indexes read.  An
\* index outside the buffer raises IndexError.
BosChecks(b, end, pos) ==
    LET remain == end - pos
        len    == At(b, pos)
        type   == At(b, pos + 1)
    IN  IF remain < 3 THEN Brk("remain", {})
        ELSE IF len = OOB THEN Brk("IndexError", {pos})
        ELSE IF len < 3 THEN Brk("length", {pos})
        ELSE IF type = OOB THEN Brk("IndexError", {pos, pos + 1})
        ELSE IF type # DESCRIPTOR_TYPE_DEVICE_CAPABILITY THEN Brk("type", {pos, pos + 1})
        ELSE IF len > remain THEN Brk("overrun", {pos, pos + 1})
        ELSE Brk("", {pos, pos + 1})

\* The Platform Capability test of a descriptor that passed the checks: the
\* payload appended to found_cap_data (none: <<>>) and the indexes read:
\* buf[pos + 2], then the bytes the slices buf[pos + 4:pos + 20] and
\* buf[pos + 20:pos + buf[pos]] take; buf[pos + 3] is never read.
\* uuid.UUID raises ValueError unless it is given 16 bytes.
BosMatch(b, pos) ==
    LET len   == At(b, pos)
        cap   == At(b, pos + 2)
        uuidb == PySlice(b, pos + 4, pos + 20)
        data  == PySlice(b, pos + 20, pos + len)
        uuidr == {pos + 2} \cup ((pos + 4) .. (pos + 3 + Len(uuidb)))
    IN  IF cap = OOB
        THEN [stop |-> "IndexError", reads |-> {pos + 2}, add |-> <<>>]
        ELSE IF cap = CAPABILITY_TYPE_PLATFORM /\ len >= 20
        THEN IF Len(uuidb) # 16
             THEN [stop |-> "ValueError", reads |-> uuidr, add |-> <<>>]
             ELSE IF UuidFromBytesLE(uuidb) = DEVICE_UUID
             THEN [stop |-> "", reads |-> uuidr \cup ((pos + 20) .. (pos + 19 + Len(data))),
                   add |-> <<data>>]
             ELSE [stop |-> "", reads |-> uuidr, add |-> <<>>]
        ELSE [stop |-> "", reads |-> {pos + 2}, add |-> <<>>]

\* The while loop: num_caps counts down, pos walks forward, found_cap_data
\* collects the payloads.  log keeps one entry per evaluation of the loop
\* body: the cursor, what the body read and how it ended.
RECURSIVE BosWalk(_, _, _, _, _, _)
BosWalk(b, end, pos, num_caps, found, log) ==
    IF num_caps = 0
    THEN [found |-> found, log |-> log, stop |-> "count"]
    ELSE LET c == BosChecks(b, end, pos)
             m == BosMatch(b, pos)
             entry == [pos |-> pos, num_caps |-> num_caps,
                       stop |-> IF c.stop # "" THEN c.stop ELSE m.stop,
                       reads |-> IF c.stop # "" THEN c.reads ELSE c.reads \cup m.reads,
                       add |-> IF c.stop # "" THEN <<>> ELSE m.add]
         IN  IF entry.stop # ""
             THEN [found |-> found, log |-> Append(log, entry), stop |-> entry.stop]
             ELSE BosWalk(b, end, pos + At(b, pos), num_caps - 1,
                          found \o m.add, Append(log, entry))

\* check_bos(buf).  ret is "False" for the early return, "list" for the
\* returned found_cap_data, "raise" when an exception escapes; hdr is the
\* set of header indexes read.
check_bos(b) ==
    IF Len(b) < 5 \/ At(b, 0) < 5 \/ At(b, 1) # DESCRIPTOR_TYPE_BOS
    THEN [ret |-> "False", found |-> <<>>, log |-> <<>>, stop |-> "header",
          end |-> 0, num_caps |-> 0,
          hdr |-> IF Len(b) < 5 THEN {} ELSE IF At(b, 0) < 5 THEN {0} ELSE {0, 1}]
    ELSE LET end == Min(Len(b), At(b, 2) + At(b, 3) * 256)
             w   == BosWalk(b, end, 5, At(b, 4), <<>>, <<>>)
         IN  [ret |-> IF w.stop \in {"IndexError", "ValueError"} THEN "raise" ELSE "list",
              found |-> w.found, log |-> w.log, stop |-> w.stop,
              end |-> end, num_caps |-> At(b, 4), hdr |-> 0 .. 4]

----------------------------------------------------------------------------
(* BOS buffers the scanner is run on *)

\* DEVICE_UUID as a device stores it in a Platform Capability descriptor
DEVICE_UUID_LE ==
    <<59, 249, 217, 26, 76, 73, 218, 77, 161, 229, 46, 43, 171, 24, 16, 82>>

PlatformCap(uuid_le, payload) ==
    <<20 + Len(payload), DESCRIPTOR_TYPE_DEVICE_CAPABILITY, CAPABILITY_TYPE_PLATFORM, 0>>
        \o uuid_le \o payload

Desc(kind, payload, bytes) == [kind |-> kind, payload |-> payload, bytes |-> bytes]

\* The descriptors a generated buffer is laid out from: matching Platform
\* Capabilities (payloads of 3, 4 and 2 bytes), a Platform Capability of
\* another UUID (the target's bytes in big-endian order), a USB 2.0
\* Extension capability, a descriptor that is no Device Capability, one
\* whose declared length is below 3, and a Platform Capability cut below 20.
Descs ==
    { Desc("match", <<0, 1, 0>>, PlatformCap(DEVICE_UUID_LE, <<0, 1, 0>>)),
      Desc("match", <<1, 2, 3, 7>>, PlatformCap(DEVICE_UUID_LE, <<1, 2, 3, 7>>)),
      Desc("match", <<0, 1>>, PlatformCap(DEVICE_UUID_LE, <<0, 1>>)),
      Desc("other", <<>>, PlatformCap(DEVICE_UUID, <<0, 1, 0>>)),
      Desc("other", <<>>, <<7, DESCRIPTOR_TYPE_DEVICE_CAPABILITY, 2, 2, 0, 0, 0>>),
      Desc("nocap", <<>>, <<4, 17, CAPABILITY_TYPE_PLATFORM, 0>>),
      Desc("short", <<>>, <<2, DESCRIPTOR_TYPE_DEVICE_CAPABILITY>>),
      Desc("other", <<>>,
           <<19, DESCRIPTOR_TYPE_DEVICE_CAPABILITY, CAPABILITY_TYPE_PLATFORM, 0>>
               \o SubSeq(DEVICE_UUID_LE, 1, 15)) }

RECURSIVE Flatten(_)
Flatten(ss) == IF ss = <<>> THEN <<>> ELSE Head(ss).bytes \o Flatten(Tail(ss))

Layouts == UNION { [1 .. n -> Descs] : n \in 0 .. MaxCaps }

BosHeader(b0, b1, total, ncaps) == <<b0, b1, total % 256, total \div 256, ncaps>>

Headers ==
    {<<5, DESCRIPTOR_TYPE_BOS>>, <<4, DESCRIPTOR_TYPE_BOS>>,
     <<5, DESCRIPTOR_TYPE_DEVICE_CAPABILITY>>}

FullLen(l) == 5 + Len(Flatten(l))

\* Whole buffers: any header, a declared total length that is right, one
\* short or far too large, a capability count up to one more than laid out.
WholeOf(l) ==
    { [layout |-> l, hdr |-> h, total |-> t, ncaps |-> n, cut |-> FullLen(l)] :
        h \in Headers, t \in {FullLen(l), FullLen(l) - 1, 65535},
        n \in 0 .. (MaxCaps + 1) }

\* Buffers cut at every length, as a short control transfer returns them.
CutOf(l) ==
    { [layout |-> l, hdr |-> <<5, DESCRIPTOR_TYPE_BOS>>, total |-> t, ncaps |-> n,
       cut |-> k] :
        t \in {FullLen(l), 65535}, n \in 1 .. (MaxCaps + 1), k \in 0 .. (FullLen(l) - 1) }

Build(g) ==
    SubSeq(BosHeader(g.hdr[1], g.hdr[2], g.total, g.ncaps) \o Flatten(g.layout), 1, g.cut)

NoBos == [ret |-> "none"]

\* The state of the parts a specification leaves out
\* No get_bootloader_port has taken its snapshot
NoHistory == [initial |-> {}, absent |-> {}]

IdleBos == gen = <<>> /\ buf = <<>> /\ bos = NoBos
IdleCli ==
    /\ attached = <<>> /\ argv = <<>> /\ opts = <<>> /\ pc = "idle" /\ devs = <<>> /\ cur = 0
    /\ ops = <<>> /\ skipped = <<>> /\ rc = None
IdleBoot ==
    /\ up = <<>> /\ bpc = "idle" /\ before = {} /\ snapshot = <<>> /\ history = NoHistory /\ now = 0
    /\ start_time = None /\ reboots = 0 /\ polls = 0 /\ sleeps = 0 /\ port = NoPort
    /\ interrupted = FALSE /\ flashes = <<>> /\ comports = <<>>
IdleChan == line = <<>> /\ reply = <<>> /\ twin = <<>> /\ call = <<>> /\ given = <<>>

----------------------------------------------------------------------------
(* The scanner alone: check_bos applied to one buffer *)

InitBos ==
    /\ \E l \in Layouts : gen \in WholeOf(l) \cup CutOf(l)
    /\ buf = Build(gen)
    /\ bos = NoBos
    /\ IdleCli
    /\ IdleBoot
    /\ IdleChan
    /\ handles = <<>>

\* UuidFinder.check_bos(buf)
CheckBos ==
    /\ bos = NoBos
    /\ bos' = check_bos(buf)
    /\ UNCHANGED <<gen, buf>>
    /\ UNCHANGED <<cliVars, bootVars, chanVars, handles, comports>>

NextBos == CheckBos

SpecBos == InitBos /\ [][NextBos]_vars

----------------------------------------------------------------------------
(* Claims about the scanner *)

Scanned == bos # NoBos

\* C3: check_bos never raises on any buffer: every index it reads lies
\* inside the buffer, every index the walk reads lies below
\* min(len(buf), declared total length), the loop body runs at most
\* num_capabilities (byte 4) times, and a buffer shorter than 5 bytes or
\* whose byte 1 is not the BOS tag yields no match (the falsy early return).
C3_ScanNeverRaises ==
    Scanned =>
        /\ bos.ret \in {"False", "list"}
        /\ \A i \in bos.hdr : i < Len(buf)
        /\ \A k \in 1 .. Len(bos.log) :
               \A i \in bos.log[k].reads :
                   /\ 0 <= i /\ i < Len(buf)
                   /\ i < Min(Len(buf), At(buf, 2) + At(buf, 3) * 256)
        /\ (bos.ret = "list" => Len(bos.log) <= At(buf, 4))
        /\ (Len(buf) < 5 \/ At(buf, 1) # DESCRIPTOR_TYPE_BOS =>
               bos.ret = "False" /\ bos.found = <<>> /\ bos.log = <<>>)

\* C3 witness: a descriptor whose declared length exceeds the bytes left
\* halts the walk after an earlier match was collected.
C3_Witness ==
    /\ Scanned
    /\ bos.stop = "overrun"
    /\ Len(bos.found) = 1
    /\ Len(buf) < FullLen(gen.layout)

\* The descriptors of a layout the walk reaches: those before the first one
\* that is no Device Capability or declares a length below 3, at most n.
RECURSIVE Reached(_, _)
Reached(l, n) ==
    IF l = <<>> \/ n = 0 \/ Head(l).kind \in {"nocap", "short"} THEN <<>>
    ELSE <<Head(l)>> \o Reached(Tail(l), n - 1)

RECURSIVE Payloads(_)
Payloads(l) ==
    IF l = <<>> THEN <<>>
    ELSE (IF Head(l).kind = "match" THEN <<Head(l).payload>> ELSE <<>>) \o Payloads(Tail(l))

WellFormed(g) ==
    /\ g.hdr = <<5, DESCRIPTOR_TYPE_BOS>>
    /\ g.cut = FullLen(g.layout)
    /\ g.total >= FullLen(g.layout)

\* The check that fails at a cursor, read off the buffer
Remain(k) == Min(Len(buf), At(buf, 2) + At(buf, 3) * 256) - bos.log[k].pos
DeclLen(k) == At(buf, bos.log[k].pos)
DeclType(k) == At(buf, bos.log[k].pos + 1)

ThreeChecksFail(k) ==
    \/ Remain(k) < 3
    \/ DeclLen(k) < 3
    \/ DeclLen(k) > Remain(k)

\* C4 as stated: the walk breaks only where one of the three length checks
\* fails, and a well-formed descriptor that is no Device Capability is
\* skipped, so the matching capabilities laid out after it are returned.
C4_StopsOnlyOnThreeChecks ==
    Scanned /\ bos.ret = "list" =>
        /\ \A k \in 1 .. Len(bos.log) : bos.log[k].stop # "" => ThreeChecksFail(k)
        /\ (/\ WellFormed(gen)
            /\ gen.ncaps >= Len(gen.layout)
            /\ (\A j \in 1 .. Len(gen.layout) : gen.layout[j].kind # "short")
            => bos.found = Payloads(gen.layout))

\* C4 amended: the walk breaks exactly where one of four checks fails at the
\* cursor (fewer than 3 bytes remain, declared length below 3, descriptor
\* type not Device Capability, declared length beyond the remaining bytes);
\* any other descriptor, Platform or not, is stepped over by its declared
\* length with the counter decremented, so the matching Platform
\* Capabilities among the descriptors reached are all returned, in order.
C4_StopsOnFourChecks ==
    Scanned /\ bos.ret = "list" =>
        /\ \A k \in 1 .. Len(bos.log) :
               /\ bos.log[k].stop # "" <=>
                     (ThreeChecksFail(k) \/ DeclType(k) # DESCRIPTOR_TYPE_DEVICE_CAPABILITY)
               /\ bos.log[k].stop # "" => k = Len(bos.log)
               /\ k < Len(bos.log) =>
                     /\ bos.log[k + 1].pos = bos.log[k].pos + DeclLen(k)
                     /\ bos.log[k + 1].num_caps = bos.log[k].num_caps - 1
        /\ (WellFormed(gen) => bos.found = Payloads(Reached(gen.layout, gen.ncaps)))

\* C4 witness: a USB 2.0 Extension capability was stepped over and the
\* matching Platform Capability after it returned.
C4_Witness ==
    /\ Scanned
    /\ WellFormed(gen)
    /\ Len(gen.layout) = 2
    /\ gen.layout[1].kind = "other"
    /\ gen.layout[2].kind = "match"
    /\ bos.found = <<gen.layout[2].payload>>
    /\ bos.stop = "count"

----------------------------------------------------------------------------
(* Device Enumerator: UuidFinder.__call__ and find_fan_devs *)

\* UuidFinder.__call__(dev): the uuid_finder_data attached to dev, <<>> when
\* the device is passed over (custom_match returns False).
uuid_finder_data(d) ==
    IF d.bcdUSB < 513 THEN <<>>
    ELSE IF ~d.xferOk THEN <<>>
    ELSE LET data == check_bos(d.bos)
         IN  IF data.ret = "list" /\ data.found # <<>> THEN data.found ELSE <<>>

custom_match(d) == uuid_finder_data(d) # <<>>

\* UsbFanDevice with major and minor taken from the wrong bytes
UsbFanDeviceSwapped(dev, data) ==
    [dev |-> dev, iface |-> data[3], major |-> data[1], minor |-> data[2]]

\* UsbFanDevice(dev, data[2], data[1], data[0]); dev is the device's
\* position on the bus
UsbFanDevice(dev, data) ==
    [dev |-> dev, iface |-> data[3], major |-> data[2], minor |-> data[1]]

\* `index == found`, which is False for index None
IndexIs(index, found) == index # None /\ index = found

\* The inner loop of find_fan_devs over dev.uuid_finder_data from its k-th
\* payload on: `break` leaves it without counting the payload in found.
RECURSIVE FindInDev(_, _, _, _, _, _)
FindInDev(dev, datas, k, index, found, fan_devs) ==
    IF k > Len(datas) THEN [found |-> found, fan_devs |-> fan_devs]
    ELSE LET data == datas[k]
             take == Len(data) >= 3 /\ (index = None \/ IndexIs(index, found))
             fans == IF take THEN Append(fan_devs, UsbFanDevice(dev, data)) ELSE fan_devs
         IN  IF Len(data) >= 3 /\ IndexIs(index, found)
             THEN [found |-> found, fan_devs |-> fans]
             ELSE FindInDev(dev, datas, k + 1, index, found + 1, fans)

\* FindFrom giving up the enumeration at the first device passed over
RECURSIVE FindFromStopsAtSkipped(_, _, _, _, _)
FindFromStopsAtSkipped(bus, dev, index, found, fan_devs) ==
    IF dev > Len(bus) THEN fan_devs
    ELSE IF ~custom_match(bus[dev]) THEN fan_devs
    ELSE LET r == FindInDev(dev, uuid_finder_data(bus[dev]), 1, index, found, fan_devs)
         IN  FindFromStopsAtSkipped(bus, dev + 1, index, r.found, r.fan_devs)

\* The outer loop over the devices usb_module.find yields (those that
\* custom_match accepts), from bus position dev on.
RECURSIVE FindFrom(_, _, _, _, _)
FindFrom(bus, dev, index, found, fan_devs) ==
    IF dev > Len(bus) THEN fan_devs
    ELSE IF ~custom_match(bus[dev]) THEN FindFrom(bus, dev + 1, index, found, fan_devs)
    ELSE LET r == FindInDev(dev, uuid_finder_data(bus[dev]), 1, index, found, fan_devs)
         IN  FindFrom(bus, dev + 1, index, r.found, r.fan_devs)

find_fan_devs(bus, index) == FindFrom(bus, 1, index, 0, <<>>)

----------------------------------------------------------------------------
(* Fan Device Facade and the commands of usb_fan_config.py *)

\* Python's round() of the quotient n / d (d > 0): to the nearest integer,
\* a tie to the even one
PyRound(n, d) ==
    LET q == n \div d
        r == n % d
    IN  IF 2 * r < d THEN q
        ELSE IF 2 * r > d THEN q + 1
        ELSE IF q % 2 = 0 THEN q ELSE q + 1

\* tuple.index(x)
RECURSIVE IndexOf(_, _, _)
IndexOf(t, x, k) == IF t[k + 1] = x THEN k ELSE IndexOf(t, x, k + 1)

Rd(reg) == [op |-> "read", reg |-> reg, val |-> None]
Wr(reg, val) == [op |-> "write", reg |-> reg, val |-> val]

Commands ==
    {"list", "set", "get", "set_frequency", "get_frequency", "led", "save", "reset",
     "write_register", "read_register", "upload"}

\* version_check with the reset subcommand left unchecked
version_checkNoReset(command) ==
    command \in {"set", "get", "set_frequency", "get_frequency", "led", "save"}

\* set_defaults(version_check=...) of each subparser
version_check(command) ==
    command \in {"set", "get", "set_frequency", "get_frequency", "led", "save", "reset"}

\* The register transfers command_func(dev, opts) issues on a channel whose
\* reads return rd, in order.  fail is the exception the command ends on
\* after them ("" for none).
CommandOps(o, rd) ==
    CASE o.command = "list" -> [ops |-> <<>>, fail |-> ""]
      [] o.command = "set" ->
            [ops |-> <<Rd(REGISTER_PWM_PERIOD),
                       Wr(REGISTER_PWM_DUTY1 + o.fan_index * 16, PyRound(rd * o.speed, 100))>>,
             fail |-> ""]
      [] o.command = "get" ->
            [ops |-> <<Rd(REGISTER_TACHOMETER1 + o.fan_index * 16)>>, fail |-> ""]
      [] o.command = "set_frequency" ->
            IF o.freq = 0 THEN [ops |-> <<>>, fail |-> "ZeroDivisionError"]
            ELSE [ops |-> <<Wr(REGISTER_PWM_PERIOD,
                               IF PyRound(16000000, o.freq) > 65535 THEN 0
                               ELSE PyRound(16000000, o.freq))>>,
                  fail |-> ""]
      [] o.command = "get_frequency" ->
            [ops |-> <<Rd(REGISTER_PWM_PERIOD)>>,
             fail |-> IF rd = 0 THEN "ZeroDivisionError" ELSE ""]
      [] o.command = "led" ->
            [ops |-> <<Wr(REGISTER_LED_CONTROL, IndexOf(LED_MODES, o.mode, 0))>>, fail |-> ""]
      [] o.command = "save" -> [ops |-> <<Wr(REGISTER_CONFIG_CONTROL, 1)>>, fail |-> ""]
      [] o.command = "reset" ->
            [ops |-> <<Wr(REGISTER_RESET_CONTROL, IndexOf(RESET_MODES, o.mode, 0) + 1)>>,
             fail |-> ""]
      [] o.command = "write_register" -> [ops |-> <<Wr(o.register, o.value)>>, fail |-> ""]
      [] o.command = "read_register" -> [ops |-> <<Rd(o.register)>>, fail |-> ""]

\* version_ok letting any major from the required one up pass
version_okNewerMajor(d) ==
    IF d.major < DEVICE_MAJOR THEN FALSE
    ELSE IF d.minor < DEVICE_MINOR THEN FALSE
    ELSE TRUE

\* UsbFanDevice.version_ok
version_ok(d) ==
    IF d.major # DEVICE_MAJOR THEN FALSE
    ELSE IF d.minor < DEVICE_MINOR THEN FALSE
    ELSE TRUE

----------------------------------------------------------------------------
(* Command lines and buses main() is run on *)

BaseOpts ==
    [command |-> "list", all |-> FALSE, index |-> None, serial_port |-> FALSE,
     fan_index |-> 0, speed |-> 0, freq |-> 0, mode |-> "", register |-> 0,
     value |-> 0, timeout |-> None]

\* The arguments given to each subcommand
CommandLines ==
    {[BaseOpts EXCEPT !.command = "list"], [BaseOpts EXCEPT !.command = "save"],
     [BaseOpts EXCEPT !.command = "get_frequency"]}
    \cup {[BaseOpts EXCEPT !.command = "set", !.speed = sp, !.fan_index = f] :
             sp \in {0, 37, 100}, f \in {0, 2}}
    \cup {[BaseOpts EXCEPT !.command = "get", !.fan_index = f] : f \in {0, 2}}
    \cup {[BaseOpts EXCEPT !.command = "set_frequency", !.freq = hz] : hz \in {25000, 100}}
    \cup {[BaseOpts EXCEPT !.command = "led", !.mode = m] : m \in {"alert", "blink"}}
    \cup {[BaseOpts EXCEPT !.command = "reset", !.mode = m] : m \in {"reboot", "bootloader"}}
    \cup {[BaseOpts EXCEPT !.command = "write_register", !.register = REGISTER_PWM_PERIOD,
                           !.value = 640]}
    \cup {[BaseOpts EXCEPT !.command = "read_register", !.register = r] :
             r \in {REGISTER_PWM_PERIOD, REGISTER_SERIAL_NUMBER}}
    \cup {[BaseOpts EXCEPT !.command = "upload", !.timeout = t] : t \in {None, 1}}

\* The command line with its device selection: --all, --index N, --serial-port
ArgvSet ==
    {[o EXCEPT !.all = a, !.index = i, !.serial_port = sp] :
        o \in CommandLines, a \in BOOLEAN, i \in {None} \cup (0 .. MaxIndex),
        sp \in BOOLEAN}

Whole(l) == Build([layout |-> l, hdr |-> <<5, DESCRIPTOR_TYPE_BOS>>, total |-> FullLen(l),
                   ncaps |-> Len(l), cut |-> FullLen(l)])

Match10 == Desc("match", <<0, 1, 0>>, PlatformCap(DEVICE_UUID_LE, <<0, 1, 0>>))
Match21 == Desc("match", <<1, 2, 3, 7>>, PlatformCap(DEVICE_UUID_LE, <<1, 2, 3, 7>>))
MatchShort == Desc("match", <<0, 1>>, PlatformCap(DEVICE_UUID_LE, <<0, 1>>))
OtherCap == Desc("other", <<>>, <<7, DESCRIPTOR_TYPE_DEVICE_CAPABILITY, 2, 2, 0, 0, 0>>)

UsbDev(bcd, ok, l) == [bcdUSB |-> bcd, xferOk |-> ok, layout |-> l, bos |-> Whole(l)]

\* The kinds of device on the bus: a fan of protocol 1.0, one of protocol
\* 2.1, one with a 2-byte capability before its fan interface, one with two
\* fan interfaces (1.0 and 2.1), a USB 2.0 device, one whose BOS transfer
\* fails, and a USB 2.1 device without the capability.
DevKinds ==
    { UsbDev(513, TRUE, <<OtherCap, Match10>>),
      UsbDev(528, TRUE, <<Match21>>),
      UsbDev(513, TRUE, <<MatchShort, Match10>>),
      UsbDev(513, TRUE, <<Match10, Match21>>),
      UsbDev(512, TRUE, <<Match10>>),
      UsbDev(513, FALSE, <<Match10>>),
      UsbDev(768, TRUE, <<OtherCap>>) }

Buses == UNION { [1 .. n -> DevKinds] : n \in 0 .. MaxDevs }

\* What a register read returns: the PWM period the device holds
ReadValues == {0, 640}

----------------------------------------------------------------------------
(* atmega32u4_upload.py: get_bootloader_port and upload_firmware *)

Port(device, bus, id) == [device |-> device, hwid |-> <<bus, id>>]

\* port.hwid.startswith("USB")
IsUsb(p) == p.hwid[1] = "USB"

\* (port.device, port.hwid)
PortInfo(p) == <<p.device, p.hwid>>

\* The first loop of get_bootloader_port: the set `before`
UsbPorts(ports) == { PortInfo(ports[k]) : k \in { j \in 1 .. Len(ports) : IsUsb(ports[j]) } }

\* NewAt comparing the device path alone
NewAtByPath(ports, bef) ==
    { k \in 1 .. Len(ports) : IsUsb(ports[k]) /\ ports[k].device \notin { b[1] : b \in bef } }

\* Positions in comports() of the USB ports that are not in `before`
NewAt(ports, bef) ==
    { k \in 1 .. Len(ports) : IsUsb(ports[k]) /\ PortInfo(ports[k]) \notin bef }

\* The polling loop returns at the first of them, in comports() order
FirstNew(ports, bef) ==
    ports[CHOOSE k \in NewAt(ports, bef) : \A j \in NewAt(ports, bef) : k <= j].device

\* AfterSet without line 63: `before` stays the first snapshot
AfterSetKeeps(ports, bef) == bef

\* `after` when the loop over comports() ran to its end
AfterSet(ports, bef) == UsbPorts(ports) \cap bef

\* TimedOut with >= for >
TimedOutAtDeadline(timeout, t, start) == timeout # None /\ t >= start + timeout

\* TimedOut with the deadline never looked at
TimedOutNever(timeout, t, start) == FALSE

\* `timeout is not None and time.monotonic() > start_time + timeout`
TimedOut(timeout, t, start) == timeout # None /\ t > start + timeout

Ticks == 0 .. MaxDt
MaxTime == MaxTimeout + MaxDt + 1

\* upload_firmware returns rval to its caller: upload_command drops it and
\* main goes on with the next device; main() of atmega32u4_upload.py
\* exits with it.
Return(rval) ==
    IF up.caller = "cli"
    THEN /\ pc' = (IF opts.serial_port THEN "serial" ELSE "dispatch")
         /\ cur' = cur + 1 /\ rc' = rc
    ELSE pc' = "exit" /\ cur' = cur /\ rc' = rval

\* The frame of get_bootloader_port is left: in usb_fan_config.py the run goes
\* on and its locals are gone; atmega32u4_upload.py ends, tag tells how.
Unwind(tag) ==
    IF up.caller = "cli"
    THEN /\ bpc' = "idle" /\ before' = {} /\ snapshot' = <<>> /\ history' = NoHistory
         /\ start_time' = None
         /\ reboots' = 0 /\ polls' = 0 /\ sleeps' = 0 /\ port' = NoPort
    ELSE /\ bpc' = tag
         /\ UNCHANGED <<before, snapshot, history, start_time, reboots, polls, sleeps, port>>

\* serial.Serial(...) returned a handle; dev.close() was called on it
Opened(owner) == [owner |-> owner, ev |-> "open"]
Closed(owner) == [owner |-> owner, ev |-> "close"]

\* sys.exit(message): SystemExit leaves every frame, the status is 1
SysExit == pc' = "exit" /\ rc' = 1 /\ cur' = cur

\* upload_firmware is entered: with a bootloader port given there is no
\* detection, otherwise get_bootloader_port starts.
Enter(u) ==
    /\ up' = u
    /\ bpc' = IF u.bootloader_port = NoPort THEN "snap" ELSE "flash"
    /\ port' = u.bootloader_port
    /\ before' = {} /\ snapshot' = <<>> /\ history' = NoHistory /\ start_time' = None
    /\ reboots' = 0 /\ polls' = 0 /\ sleeps' = 0

\* get_bootloader_port, lines 45-48: the snapshot `before`
SnapshotBefore(ports) ==
    /\ pc = "upload" /\ bpc = "snap"
    /\ before' = UsbPorts(ports)
    /\ snapshot' = ports
    /\ history' = [initial |-> UsbPorts(ports), absent |-> {}]
    /\ bpc' = "reboot"
    /\ UNCHANGED <<up, now, start_time, reboots, polls, sleeps, port, interrupted, flashes>>
    /\ UNCHANGED <<bosVars, comports, chanVars, handles, cliVars>>

\* FanDeviceRebooter.__call__: write 3 to register 0xf0 of the device
RebootWrite == Wr(REGISTER_RESET_CONTROL, 3)

\* A transfer on the channel devs[k]; ok tells whether it went through
IssueBy(k, o, ok) == [chan |-> k, dev |-> devs[k].dev, iface |-> devs[k].iface,
                      op |-> o.op, reg |-> o.reg, val |-> o.val, ok |-> ok]

\* lines 50-51: reboot() and start_time.  The fan rebooter and the serial
\* rebooter end the process when their transfer or open fails.
Reboot ==
    /\ pc = "upload" /\ bpc = "reboot"
    /\ reboots' = reboots + 1
    /\ \E ok \in BOOLEAN :
          /\ ok \/ up.reboot # "manual"
          /\ ops' = IF up.reboot = "fan"
                    THEN Append(ops, IssueBy(cur, RebootWrite, ok)) ELSE ops
          /\ handles' = IF up.reboot = "serial" /\ ok
                        THEN handles \o <<Opened("SerialRebooter"), Closed("SerialRebooter")>>
                        ELSE handles
          /\ IF ok
             THEN /\ start_time' = now /\ bpc' = "poll"
                  /\ UNCHANGED <<pc, rc, cur>>
             ELSE /\ start_time' = start_time /\ bpc' = "exited"
                  /\ SysExit
    /\ UNCHANGED <<up, before, snapshot, history, now, polls, sleeps, port, interrupted, flashes>>
    /\ UNCHANGED <<bosVars, comports, chanVars, attached, argv, opts, devs, skipped>>

\* lines 53-62: one pass of the polling loop that finds a port
PollFound(ports) ==
    /\ pc = "upload" /\ bpc = "poll"
    /\ NewAt(ports, before) # {}
    /\ snapshot' = ports
    /\ history' = history
    /\ polls' = polls + 1
    /\ port' = FirstNew(ports, before)
    /\ bpc' = "flash"
    /\ UNCHANGED <<up, before, now, start_time, reboots, sleeps, interrupted, flashes>>
    /\ UNCHANGED <<bosVars, comports, chanVars, handles, cliVars>>

\* lines 53-65: one pass that finds none; dt is the time it took
PollNone(ports, dt) ==
    /\ pc = "upload" /\ bpc = "poll"
    /\ NewAt(ports, before) = {}
    /\ snapshot' = ports
    /\ history' = [history EXCEPT !.absent = @ \cup (history.initial \ UsbPorts(ports))]
    /\ polls' = polls + 1
    /\ before' = AfterSet(ports, before)
    /\ now' = now + dt
    /\ IF TimedOut(up.timeout, now', start_time)
       THEN bpc' = "notfound"
       ELSE bpc' = "sleep"
    /\ UNCHANGED <<up, start_time, reboots, sleeps, port, interrupted, flashes>>
    /\ UNCHANGED <<bosVars, comports, chanVars, handles, cliVars>>

\* Sleep with the loop head placed above reboot()
SleepRetrigger(dt) ==
    /\ pc = "upload" /\ bpc = "sleep"
    /\ polls < MaxPolls
    /\ now' = now + dt
    /\ sleeps' = sleeps + 1
    /\ bpc' = "reboot"
    /\ UNCHANGED <<up, before, snapshot, history, start_time, reboots, polls, port, interrupted,
                   flashes>>
    /\ UNCHANGED <<bosVars, comports, chanVars, handles, cliVars>>

\* line 66: time.sleep(0.1)
Sleep(dt) ==
    /\ pc = "upload" /\ bpc = "sleep"
    /\ polls < MaxPolls
    /\ now' = now + dt
    /\ sleeps' = sleeps + 1
    /\ bpc' = "poll"
    /\ UNCHANGED <<up, before, snapshot, history, start_time, reboots, polls, port, interrupted,
                   flashes>>
    /\ UNCHANGED <<bosVars, comports, chanVars, handles, cliVars>>

\* UploadTimedOut going on to avrdude with the port it was handed
UploadTimedOutFlashes ==
    /\ pc = "upload" /\ bpc = "notfound"
    /\ bpc' = "flash"
    /\ UNCHANGED <<pc, rc, cur>>
    /\ UNCHANGED <<up, before, snapshot, history, now, start_time, reboots, polls, sleeps, port,
                   interrupted, flashes>>
    /\ UNCHANGED <<bosVars, comports, chanVars, handles, attached, argv, opts, devs, ops, skipped>>

\* upload_firmware, lines 75-76: no port within the timeout
UploadTimedOut ==
    /\ pc = "upload" /\ bpc = "notfound"
    /\ bpc' = "exited"
    /\ SysExit
    /\ UNCHANGED <<up, before, snapshot, history, now, start_time, reboots, polls, sleeps, port,
                   interrupted, flashes>>
    /\ UNCHANGED <<bosVars, comports, chanVars, handles, attached, argv, opts, devs, ops, skipped>>

\* lines 73-74: KeyboardInterrupt inside get_bootloader_port; upload_firmware
\* returns 1
Interrupt ==
    /\ pc = "upload" /\ bpc \in {"snap", "reboot", "poll", "sleep"}
    /\ interrupted' = TRUE
    /\ Unwind("interrupted")
    /\ Return(1)
    /\ UNCHANGED <<up, now, flashes>>
    /\ UNCHANGED <<bosVars, comports, chanVars, handles, attached, argv, opts, devs, ops, skipped>>

\* lines 79-90: avrdude is run on the port; its return code is returned
Flash ==
    /\ pc = "upload" /\ bpc = "flash"
    /\ flashes' = Append(flashes, port)
    /\ Unwind("flashed")
    /\ \E code \in {0, 1} : Return(code)
    /\ UNCHANGED <<up, now, interrupted>>
    /\ UNCHANGED <<bosVars, comports, chanVars, handles, attached, argv, opts, devs, ops, skipped>>

----------------------------------------------------------------------------
(* usb_fan_config.py: parse_args and main *)

\* parser.error(...) of lines 395-407.  The error of lines 408-412 needs a
\* write_register value that is no integer: the command lines of ArgvSet
\* hold none.
UsageError(o) ==
    \/ o.serial_port /\ (o.all \/ o.index # None)
    \/ o.all /\ o.index # None
    \/ o.fan_index < 0 \/ o.fan_index > 2
    \/ o.command = "set" /\ (o.speed < 0 \/ o.speed > 100)

\* lines 402-403: without --all and --index every command but list gets
\* index 0
DefaultIndex(o) ==
    IF ~o.all /\ o.index = None /\ o.command # "list" THEN [o EXCEPT !.index = 0] ELSE o

\* atmega32u4_upload.check_core_args, called for the upload command (lines
\* 413-414): with no --avrdude given, parser.error when shutil.which finds
\* no avrdude in PATH
NoAvrdude(o, which) == o.command = "upload" /\ ~which

\* parse_args(); which: shutil.which("avrdude") finds the program
ParseArgs ==
    /\ pc = "start"
    /\ \E which \in BOOLEAN :
          IF UsageError(opts) \/ NoAvrdude(opts, which)
          THEN pc' = "exit" /\ rc' = 2 /\ opts' = opts
          ELSE pc' = "parsed" /\ rc' = rc /\ opts' = DefaultIndex(opts)
    /\ UNCHANGED <<attached, argv, devs, cur, ops, skipped>>
    /\ UNCHANGED <<bosVars, comports, chanVars, handles, bootVars>>

\* The channel of --serial-port: SerialFanDevice.version_ok is always True
SerialDev == [dev |-> 0, iface |-> None, major |-> DEVICE_MAJOR, minor |-> DEVICE_MINOR]

\* main, lines 421-426: the serial channel is opened and is the one device
OpenSerial ==
    /\ pc = "parsed" /\ opts.serial_port
    /\ \E ok \in BOOLEAN :
          IF ok
          THEN /\ pc' = "serial" /\ devs' = <<SerialDev>> /\ cur' = 1 /\ rc' = rc
               /\ handles' = Append(handles, Opened("SerialFanDevice"))
          ELSE /\ pc' = "exit" /\ devs' = devs /\ cur' = cur /\ rc' = 1
               /\ handles' = handles
    /\ UNCHANGED <<attached, argv, opts, ops, skipped>>
    /\ UNCHANGED <<bosVars, comports, chanVars, bootVars>>

\* main, lines 436-438: enumeration; with no device the message is printed
\* and the process exits with 0
FindDevs ==
    /\ pc = "parsed" /\ ~opts.serial_port
    /\ devs' = find_fan_devs(attached, opts.index)
    /\ IF devs' = <<>>
       THEN pc' = "exit" /\ rc' = 0 /\ cur' = cur
       ELSE pc' = "dispatch" /\ rc' = rc /\ cur' = 1
    /\ UNCHANGED <<attached, argv, opts, ops, skipped>>
    /\ UNCHANGED <<bosVars, comports, chanVars, handles, bootVars>>

Dispatching == pc \in {"dispatch", "serial"} /\ cur <= Len(devs)

\* check_and_run, lines 430-433: only the serial branch calls command_func
\* without it
Gated(d) == pc = "dispatch" /\ version_check(opts.command) /\ ~version_ok(d)

\* check_and_run returns without running the command
VersionGate ==
    /\ Dispatching
    /\ Gated(devs[cur])
    /\ skipped' = Append(skipped, cur)
    /\ cur' = cur + 1
    /\ UNCHANGED <<attached, argv, opts, pc, devs, ops, rc>>
    /\ UNCHANGED <<bosVars, comports, chanVars, handles, bootVars>>

\* A read of the serial channel may also return the sentinel -1
ReadsOf(d) == IF d = SerialDev THEN ReadValues \cup {-1} ELSE ReadValues

RECURSIVE IssueAll(_, _)
IssueAll(k, os) ==
    IF os = <<>> THEN <<>> ELSE <<IssueBy(k, Head(os), TRUE)>> \o IssueAll(k, Tail(os))

\* command_func(dev, opts) runs to its end
RunCommand ==
    /\ Dispatching
    /\ ~Gated(devs[cur])
    /\ opts.command # "upload"
    /\ \E rd \in ReadsOf(devs[cur]) :
          LET c == CommandOps(opts, rd)
          IN  /\ c.fail = ""
              /\ ops' = ops \o IssueAll(cur, c.ops)
    /\ cur' = cur + 1
    /\ UNCHANGED <<attached, argv, opts, pc, devs, skipped, rc>>
    /\ UNCHANGED <<bosVars, comports, chanVars, handles, bootVars>>

\* command_func(dev, opts) raises: its n-th transfer fails (USBError, a
\* serial write timeout), or the arithmetic after the transfers does; the
\* traceback ends the process with status 1
CommandFails ==
    /\ Dispatching
    /\ ~Gated(devs[cur])
    /\ opts.command # "upload"
    /\ \E rd \in ReadsOf(devs[cur]) :
          LET c == CommandOps(opts, rd)
          IN  \/ /\ c.fail # ""
                 /\ ops' = ops \o IssueAll(cur, c.ops)
              \/ \E n \in 1 .. Len(c.ops) :
                    ops' = ops \o IssueAll(cur, SubSeq(c.ops, 1, n - 1))
                               \o <<IssueBy(cur, c.ops[n], FALSE)>>
    /\ pc' = "exit"
    /\ rc' = 1
    /\ UNCHANGED <<attached, argv, opts, devs, cur, skipped>>
    /\ UNCHANGED <<bosVars, comports, chanVars, handles, bootVars>>

\* upload_command: upload_firmware(opts, FanDeviceRebooter(dev)); opts of
\* usb_fan_config.py has no bootloader_port
UploadCommand ==
    /\ Dispatching
    /\ ~Gated(devs[cur])
    /\ opts.command = "upload"
    /\ Enter([timeout |-> opts.timeout, bootloader_port |-> NoPort, reboot |-> "fan",
              caller |-> "cli"])
    /\ pc' = "upload"
    /\ UNCHANGED <<attached, argv, opts, devs, cur, ops, skipped, rc, now, interrupted, flashes>>
    /\ UNCHANGED <<bosVars, comports, chanVars, handles>>

\* main, line 449: sys.exit(0) after the last device
MainExit ==
    /\ pc \in {"dispatch", "serial"}
    /\ cur > Len(devs)
    /\ pc' = "exit"
    /\ rc' = 0
    /\ UNCHANGED <<attached, argv, opts, devs, cur, ops, skipped>>
    /\ UNCHANGED <<bosVars, comports, chanVars, handles, bootVars>>

\* The ports the operating system lists while a fan is rebooted: the fan's
\* own serial port, the bootloader's on a new path or on the same path
PortApp == Port("p1", "USB", "app")
PortBoot == Port("p2", "USB", "boot")
PortSame == Port("p1", "USB", "boot")
PortUart == Port("p0", "ACPI", "uart")

CliPortLists == {<<PortUart, PortApp>>, <<PortApp, PortBoot>>}

Init ==
    /\ attached \in Buses
    /\ argv \in ArgvSet
    /\ opts = argv
    /\ pc = "start"
    /\ devs = <<>> /\ cur = 0 /\ ops = <<>> /\ skipped = <<>> /\ rc = None
    /\ IdleBos
    /\ IdleBoot
    /\ IdleChan
    /\ handles = <<>>

Next ==
    \/ ParseArgs
    \/ OpenSerial
    \/ FindDevs
    \/ VersionGate
    \/ RunCommand
    \/ CommandFails
    \/ UploadCommand
    \/ MainExit
    \/ \E ports \in CliPortLists : SnapshotBefore(ports)
    \/ Reboot
    \/ \E ports \in CliPortLists : PollFound(ports)
    \/ \E ports \in CliPortLists : PollNone(ports, 0)
    \/ Sleep(1)
    \/ UploadTimedOut
    \/ Interrupt
    \/ Flash

Spec == Init /\ [][Next]_vars

----------------------------------------------------------------------------
(* atmega32u4_upload.py run on its own: upload_firmware(opts, reboot) *)

Hwids == {<<"USB", "app">>, <<"USB", "boot">>, <<"ACPI", "uart">>}
Paths == {"p1", "p2"}
PortsSeen == { [device |-> d, hwid |-> h] : d \in Paths, h \in Hwids }

\* What list_ports.comports() may return: no path twice
PortLists ==
    {<<>>} \cup { <<p>> : p \in PortsSeen }
           \cup { pq \in PortsSeen \X PortsSeen : pq[1].device # pq[2].device }

\* opts.timeout, opts.bootloader_port and the reboot callable main() builds
UploadArgs ==
    { [timeout |-> t, bootloader_port |-> b, reboot |-> r, caller |-> "tool"] :
        t \in {None} \cup (0 .. MaxTimeout), b \in {NoPort, "p9"},
        r \in {"serial", "manual"} }

InitBoot ==
    /\ up \in UploadArgs
    /\ bpc = (IF up.bootloader_port = NoPort THEN "snap" ELSE "flash")
    /\ port = up.bootloader_port
    /\ before = {} /\ snapshot = <<>> /\ history = NoHistory /\ start_time = None
    /\ reboots = 0 /\ polls = 0 /\ sleeps = 0
    /\ now \in 0 .. 1
    /\ interrupted = FALSE /\ flashes = <<>> /\ comports = <<>>
    /\ attached = <<>> /\ argv = <<>> /\ opts = <<>> /\ pc = "upload" /\ devs = <<>>
    /\ cur = 0 /\ ops = <<>> /\ skipped = <<>> /\ rc = None
    /\ IdleBos
    /\ IdleChan
    /\ handles = <<>>

NextBoot ==
    \/ \E ports \in PortLists : SnapshotBefore(ports)
    \/ Reboot
    \/ \E ports \in PortLists : PollFound(ports)
    \/ \E ports \in PortLists, dt \in Ticks : now + dt <= MaxTime /\ PollNone(ports, dt)
    \/ \E dt \in Ticks : now + dt <= MaxTime /\ Sleep(dt)
    \/ UploadTimedOut
    \/ Interrupt
    \/ Flash

SpecBoot == InitBoot /\ [][NextBoot]_vars

----------------------------------------------------------------------------
(* Claims about enumeration and command dispatch (Spec) *)

\* The bus as its devices were laid out, without the scanner: a device is a
\* fan when it is USB 2.01 or later, hands out its BOS and carries a
\* matching capability; its matches are the payloads of those capabilities.
MatchesOf(d) == IF d.bcdUSB >= 513 /\ d.xferOk THEN Payloads(d.layout) ELSE <<>>

\* Every match on the bus, in enumeration order, with the device it is on
RECURSIVE TagAll(_, _)
TagAll(dev, datas) ==
    IF datas = <<>> THEN <<>>
    ELSE <<[dev |-> dev, data |-> Head(datas)]>> \o TagAll(dev, Tail(datas))

RECURSIVE AllMatches(_, _)
AllMatches(bus, dev) ==
    IF dev > Len(bus) THEN <<>>
    ELSE TagAll(dev, MatchesOf(bus[dev])) \o AllMatches(bus, dev + 1)

\* The descriptor a match of at least 3 bytes stands for
FanOf(m) == [dev |-> m.dev, iface |-> m.data[3], major |-> m.data[2], minor |-> m.data[1]]

RECURSIVE FansOf(_)
FansOf(ms) ==
    IF ms = <<>> THEN <<>>
    ELSE (IF Len(Head(ms).data) >= 3 THEN <<FanOf(Head(ms))>> ELSE <<>>) \o FansOf(Tail(ms))

\* find_fan_devs has returned to main
Enumerated == ~opts.serial_port /\ pc \notin {"start", "parsed"} /\ rc # 2

\* C1: without --all and --index, a command other than list issues its
\* register operations to the first fan device found and to no other.
C1_DefaultRunsOnFirstOnly ==
    (pc # "start" /\ ~argv.all /\ argv.index = None /\ ~argv.serial_port
       /\ argv.command # "list")
    => \A k \in 1 .. Len(ops) :
           /\ ops[k].dev = AllMatches(attached, 1)[1].dev
           /\ \A j \in 1 .. Len(ops) : ops[j].dev = ops[k].dev

\* C1 divergence reached: a default `set` (no --all, no --index) wrote the
\* duty register of two different devices.
C1_Witness ==
    /\ pc = "exit"
    /\ ~argv.all /\ argv.index = None /\ ~argv.serial_port
    /\ argv.command = "set"
    /\ \E j \in 1 .. Len(ops), k \in 1 .. Len(ops) :
          /\ ops[j].op = "write" /\ ops[j].reg = REGISTER_PWM_DUTY1 /\ ops[j].dev = 1
          /\ ops[k].op = "write" /\ ops[k].reg = REGISTER_PWM_DUTY1 /\ ops[k].dev = 2

\* C2: find_fan_devs(index=N) returns at most one descriptor, the N-th match
\* counted over all devices' matches in enumeration order.
C2_IndexSelectsOne ==
    (Enumerated /\ opts.index # None)
    => /\ Len(devs) <= 1
       /\ devs # <<>> =>
             /\ opts.index + 1 <= Len(AllMatches(attached, 1))
             /\ devs[1] = FanOf(AllMatches(attached, 1)[opts.index + 1])

\* C2 divergence reached: find_fan_devs(index=0) returned the first match
\* of each of two devices.
C2_Witness ==
    /\ Enumerated /\ opts.index = 0
    /\ Len(devs) = 2
    /\ devs[1].dev = 1 /\ devs[2].dev = 2

\* C5: on a valid BOS buffer the scanner returns exactly the payload bytes
\* of each Platform Capability of the target UUID, and find_fan_devs with no
\* index builds one descriptor per payload of at least 3 bytes, in
\* enumeration order, with minor, major and interface index taken from
\* payload bytes 0, 1 and 2.
C5_PayloadsBecomeDescriptors ==
    (Enumerated /\ opts.index = None)
    => /\ \A d \in 1 .. Len(attached) :
             /\ check_bos(attached[d].bos).ret = "list"
             /\ check_bos(attached[d].bos).found = Payloads(attached[d].layout)
       /\ devs = FansOf(AllMatches(attached, 1))
       /\ \A k \in 1 .. Len(devs) :
             \E m \in 1 .. Len(AllMatches(attached, 1)) :
                 LET data == AllMatches(attached, 1)[m].data
                 IN  /\ Len(data) >= 3
                     /\ devs[k].minor = data[1]
                     /\ devs[k].major = data[2]
                     /\ devs[k].iface = data[3]
                     /\ devs[k].dev = AllMatches(attached, 1)[m].dev

\* C5 witness: enumeration without an index returned one descriptor for a
\* device that carries a 2-byte payload next to its 3-byte one, then two
\* descriptors of the next device (protocol 1.0 on interface 0 and 2.1 on
\* interface 3).
C5_Witness ==
    /\ Enumerated /\ opts.index = None
    /\ Len(devs) = 3
    /\ devs[1] = [dev |-> 1, iface |-> 0, major |-> 1, minor |-> 0]
    /\ devs[2] = [dev |-> 2, iface |-> 0, major |-> 1, minor |-> 0]
    /\ devs[3] = [dev |-> 2, iface |-> 3, major |-> 2, minor |-> 1]
    /\ Len(MatchesOf(attached[1])) = 2

\* The version the channel of a transfer reported
BadVersion(k) ==
    \/ devs[ops[k].chan].major # DEVICE_MAJOR
    \/ devs[ops[k].chan].minor < DEVICE_MINOR

\* C6 as stated: no command ever issues a register write to a USB device
\* whose version_ok() is false.
C6_GateBlocksEveryWrite ==
    ~(pc \in {"idle", "start"}) /\ ~opts.serial_port
    => \A k \in 1 .. Len(ops) : ops[k].op = "write" => ~BadVersion(k)

\* C6 amended: set, get, set_frequency, get_frequency, led, save and reset
\* issue no register transfer at all to a USB device whose version_ok() is
\* false (check_and_run returns before the command); write_register,
\* read_register, upload and list are run without the version check.
C6_GateBlocksCheckedCommands ==
    ~(pc \in {"idle", "start"}) /\ ~opts.serial_port
    => /\ \A k \in 1 .. Len(ops) :
             BadVersion(k) => opts.command \in {"write_register", "read_register", "upload"}
       /\ \A j \in 1 .. Len(skipped) :
             /\ \/ devs[skipped[j]].major # DEVICE_MAJOR
                \/ devs[skipped[j]].minor < DEVICE_MINOR
             /\ opts.command \notin {"write_register", "read_register", "upload", "list"}
             /\ \A k \in 1 .. Len(ops) : ops[k].chan # skipped[j]

\* C6 witness: `--all set` wrote the duty register of a protocol 1.0 fan
\* and passed over a protocol 2.1 fan.
C6_Witness ==
    /\ pc = "exit" /\ rc = 0
    /\ opts.command = "set" /\ opts.all
    /\ Len(devs) = 2 /\ skipped = <<2>>
    /\ devs[2].major = 2
    /\ Len(ops) = 2 /\ ops[2].op = "write" /\ ops[2].chan = 1

\* C10: once an interrupt has been caught in the bootloader-port wait,
\* avrdude is never started, no wait is entered again and no further
\* register transfer is issued to any device.
C10_InterruptAbortsAll ==
    [][interrupted => (flashes' = flashes /\ ops' = ops /\ pc' # "upload")]_vars

\* C10 divergence reached: after the wait for the first device was
\* interrupted, `--all upload` sent the reboot trigger to the second device
\* and polls for its bootloader port.
C10_Witness ==
    /\ interrupted
    /\ opts.command = "upload" /\ opts.all
    /\ pc = "upload" /\ cur = 2
    /\ bpc = "poll" /\ reboots = 1
    /\ ops[Len(ops)].chan = 2 /\ ops[Len(ops)].reg = REGISTER_RESET_CONTROL

----------------------------------------------------------------------------
(* Claims about bootloader port detection (SpecBoot) *)

\* A USB serial port of the list whose (path, hardware id) is not in bef
SeesNew(ports, bef) ==
    \E k \in 1 .. Len(ports) :
        ports[k].hwid[1] = "USB" /\ <<ports[k].device, ports[k].hwid>> \notin bef

\* C7: a poll whose snapshot holds a USB serial port that is not in `before`
\* returns in that same poll, without a sleep, the path of the first such
\* port: a new path as well as a known path with another hardware id.
C7_ReturnsPortWhenSeen ==
    [][(bpc = "poll" /\ bpc' # "interrupted" /\ SeesNew(snapshot', before))
         => /\ bpc' = "flash"
            /\ polls' = polls + 1
            /\ sleeps' = sleeps
            /\ \E k \in 1 .. Len(snapshot') :
                  /\ port' = snapshot'[k].device
                  /\ snapshot'[k].hwid[1] = "USB"
                  /\ <<snapshot'[k].device, snapshot'[k].hwid>> \notin before
                  /\ ~SeesNew(SubSeq(snapshot', 1, k - 1), before)]_vars

\* C7 witness: before = {A}, the first poll saw A on the same path with
\* the bootloader's hardware id, and that path was returned with no sleep.
C7_Witness ==
    /\ bpc = "flash" /\ up.bootloader_port = NoPort
    /\ before = {<<"p1", <<"USB", "app">>>>}
    /\ snapshot = <<[device |-> "p1", hwid |-> <<"USB", "boot">>]>>
    /\ port = "p1"
    /\ polls = 1 /\ sleeps = 0

\* C8: get_bootloader_port returns None only with a timeout given, once the
\* clock has passed start_time + timeout, and after at least one poll taken
\* after the reboot; without a timeout it never returns None.
C8_NotFoundOnlyPastDeadline ==
    bpc = "notfound"
    => /\ up.timeout # None
       /\ now > start_time + up.timeout
       /\ polls >= 1
       /\ reboots = 1
       /\ port = NoPort

\* C8 witness: with a timeout of 1 the second poll, one tick past the
\* deadline, returned None.
C8_Witness ==
    /\ bpc = "notfound"
    /\ up.timeout = 1
    /\ polls = 2
    /\ now = start_time + 2

\* C9: reboot() is called exactly once by get_bootloader_port, after the
\* `before` snapshot and before the first poll, and never again.
C9_RebootExactlyOnce ==
    (pc = "upload" \/ bpc \in {"notfound", "flashed", "exited"})
      /\ up.bootloader_port = NoPort
    => /\ reboots <= 1
       /\ bpc = "snap" => reboots = 0 /\ polls = 0 /\ start_time = None
       /\ bpc = "reboot" => reboots = 0 /\ polls = 0
       /\ polls >= 1 => reboots = 1
       /\ bpc \in {"poll", "sleep", "notfound", "flash", "flashed"} => reboots = 1

\* C9 witness: two polls and two sleeps were taken, a third poll is due,
\* and reboot() was called once.
C9_Witness ==
    /\ bpc = "poll" /\ polls = 2 /\ sleeps = 2
    /\ reboots = 1

----------------------------------------------------------------------------
(* Claims about upload_firmware (SpecBoot) *)

\* The port was found by the last poll: a USB serial port of the snapshot
\* whose (path, hardware id) is not in `before`
Detected(p) ==
    \E k \in 1 .. Len(snapshot) :
        /\ snapshot[k].device = p
        /\ IsUsb(snapshot[k])
        /\ PortInfo(snapshot[k]) \notin before

\* C11: when get_bootloader_port returns None, upload_firmware ends the
\* process with the timeout error (status 1) in its next step, without
\* starting avrdude and without another reboot() or poll; nothing follows
\* the exit; avrdude is only ever started on a port that was detected or
\* given with --bootloader-port.
C11_TimeoutIsFatal ==
    /\ [](\A k \in 1 .. Len(flashes) :
             /\ flashes[k] # NoPort
             /\ \/ flashes[k] = up.bootloader_port
                \/ up.bootloader_port = NoPort /\ polls >= 1 /\ Detected(flashes[k]))
    /\ [][bpc = "notfound"
            => /\ bpc' = "exited" /\ pc' = "exit" /\ rc' = 1
               /\ flashes' = flashes /\ flashes = <<>>
               /\ reboots' = reboots /\ polls' = polls /\ sleeps' = sleeps]_vars
    /\ [][pc # "exit"]_vars

\* C11 witness: with a timeout of 1 the second poll timed out and the
\* process has ended with status 1, avrdude not started, reboot() called once.
C11_Witness ==
    /\ pc = "exit" /\ bpc = "exited" /\ rc = 1
    /\ up.timeout = 1 /\ up.bootloader_port = NoPort
    /\ polls = 2 /\ reboots = 1
    /\ port = NoPort /\ flashes = <<>>

----------------------------------------------------------------------------
(* SerialFanDevice: the ASCII line protocol, byte by byte *)

\* "{}".format(n) for an int n, as ASCII bytes
RECURSIVE Digits(_)
Digits(n) == IF n < 10 THEN <<48 + n>> ELSE Digits(n \div 10) \o <<48 + (n % 10)>>

Str(n) == IF n < 0 THEN <<45>> \o Digits(0 - n) ELSE Digits(n)

\* "R{}\n".format(reg).encode("ascii")
ReadCommand(reg) == <<82>> \o Str(reg) \o <<10>>

\* "W{},{}\n".format(reg, value).encode("ascii")
WriteCommand(reg, value) == <<87>> \o Str(reg) \o <<44>> \o Str(value) \o <<10>>

\* The k-th self._dev.read(1) of a call (k from 1): <<b>> for one byte, <<>>
\* for the empty bytes a timeout returns, as every read past the end of rx is
ReadAt(rx, k) == IF k <= Len(rx) THEN rx[k] ELSE <<>>

\* lines 138-143: the echo is read up to its newline; k is the read it ends on
RECURSIVE SkipEcho(_, _)
SkipEcho(rx, k) ==
    LET b == ReadAt(rx, k)
    IN  IF b = <<>> THEN [timeout |-> TRUE, k |-> k]
        ELSE IF b[1] = 10 THEN [timeout |-> FALSE, k |-> k]
        ELSE SkipEcho(rx, k + 1)

\* ReadLine that keeps the carriage returns
RECURSIVE ReadLineKeepsCR(_, _, _)
ReadLineKeepsCR(rx, k, data) ==
    LET b == ReadAt(rx, k)
    IN  IF b = <<>> THEN [timeout |-> TRUE, k |-> k, data |-> data]
        ELSE IF b[1] = 10 THEN [timeout |-> FALSE, k |-> k, data |-> data]
        ELSE ReadLineKeepsCR(rx, k + 1, Append(data, b[1]))

\* lines 145-153: the response line, without its carriage returns
RECURSIVE ReadLine(_, _, _)
ReadLine(rx, k, data) ==
    LET b == ReadAt(rx, k)
    IN  IF b = <<>> THEN [timeout |-> TRUE, k |-> k, data |-> data]
        ELSE IF b[1] = 10 THEN [timeout |-> FALSE, k |-> k, data |-> data]
        ELSE ReadLine(rx, k + 1, IF b[1] # 13 THEN Append(data, b[1]) ELSE data)

IsDigit(b) == b \in 48 .. 57
IsSpace(b) == b \in {9, 10, 11, 12, 13, 32}

RECURSIVE LStrip(_)
LStrip(s) == IF s # <<>> /\ IsSpace(Head(s)) THEN LStrip(Tail(s)) ELSE s

RECURSIVE RStrip(_)
RStrip(s) ==
    IF s # <<>> /\ IsSpace(s[Len(s)]) THEN RStrip(SubSeq(s, 1, Len(s) - 1)) ELSE s

\* The value of decimal digits with single underscores between them, None
\* when s is not of that form; s starts with a digit
RECURSIVE DecValue(_, _)
DecValue(s, acc) ==
    LET v == acc * 10 + (Head(s) - 48)
        rest == Tail(s)
    IN  IF rest = <<>> THEN v
        ELSE IF IsDigit(Head(rest)) THEN DecValue(rest, v)
        ELSE IF Head(rest) = 95 /\ Len(rest) >= 2 /\ IsDigit(rest[2])
             THEN DecValue(Tail(rest), v)
        ELSE None

\* int(data) of a bytearray: blanks around, a sign, decimal digits
PyInt(data) ==
    LET s == RStrip(LStrip(data))
        signed == s # <<>> /\ Head(s) \in {43, 45}
        body == IF signed THEN Tail(s) ELSE s
        v == IF body = <<>> \/ ~IsDigit(Head(body)) THEN None ELSE DecValue(body, 0)
    IN  IF v = None THEN [out |-> "raise", val |-> "ValueError"]
        ELSE [out |-> "int", val |-> IF signed /\ Head(s) = 45 THEN 0 - v ELSE v]

\* data.decode("ascii")
DecodeAscii(data) ==
    IF \E k \in 1 .. Len(data) : data[k] > 127
    THEN [out |-> "raise", val |-> "UnicodeDecodeError"]
    ELSE [out |-> "text", val |-> data]

\* The sentinel of lines 141 and 149
Sentinel == [out |-> "int", val |-> -1]

\* SerialFanDevice.read_register(reg, length) on a port whose reads return
\* rx: what was written, how many reads were made, what came back
serial_read_register(reg, rx) ==
    LET tx == ReadCommand(reg)
        e == SkipEcho(rx, 1)
        l == ReadLine(rx, e.k + 1, <<>>)
    IN  IF e.timeout THEN [tx |-> tx, reads |-> e.k, res |-> Sentinel]
        ELSE IF l.timeout THEN [tx |-> tx, reads |-> l.k, res |-> Sentinel]
        ELSE [tx |-> tx, reads |-> l.k,
              res |-> IF reg = REGISTER_SERIAL_NUMBER THEN DecodeAscii(l.data)
                      ELSE PyInt(l.data)]

\* What one read(1) may return: nothing (timeout), a newline, a carriage
\* return, the digit 1, a minus sign, the letter x, a byte that is not ASCII
RxReads == {<<>>, <<10>>, <<13>>, <<49>>, <<45>>, <<120>>, <<200>>}

RxStreams == UNION { [1 .. n -> RxReads] : n \in 0 .. MaxRx }

NoReply == [reads |-> None]

InitSerial ==
    /\ \E reg \in {REGISTER_PWM_PERIOD, REGISTER_SERIAL_NUMBER}, rx \in RxStreams :
          line = [reg |-> reg, rx |-> rx]
    /\ reply = NoReply
    /\ twin = <<>> /\ call = <<>> /\ given = <<>>
    /\ handles = <<>>
    /\ IdleBos /\ IdleCli /\ IdleBoot

\* dev.read_register(reg, 2) on the serial port
SerialRead ==
    /\ reply = NoReply
    /\ reply' = serial_read_register(line.reg, line.rx)
    /\ UNCHANGED <<line, twin, call, given, handles>>
    /\ UNCHANGED <<bosVars, comports, cliVars, bootVars>>

NextSerial == SerialRead

SpecSerial == InitSerial /\ [][NextSerial]_vars

----------------------------------------------------------------------------
(* Claims about the serial line protocol (SpecSerial) *)

\* The first read from the k-th on that returns r; Len(rx) + 1 when none does
FirstFrom(rx, k, r) ==
    LET at == {j \in k .. Len(rx) : rx[j] = r}
    IN  IF at = {} THEN Len(rx) + 1 ELSE CHOOSE j \in at : \A i \in at : j <= i

\* Where the echo ends and where the first read comes back empty
EchoEnd == FirstFrom(line.rx, 1, <<10>>)
EchoTimeout == FirstFrom(line.rx, 1, <<>>)
EchoTimedOut == EchoEnd > Len(line.rx) \/ EchoTimeout < EchoEnd

\* The same for the line after the echo
LineEnd == FirstFrom(line.rx, EchoEnd + 1, <<10>>)
LineTimeout == FirstFrom(line.rx, EchoEnd + 1, <<>>)
LineTimedOut == LineEnd > Len(line.rx) \/ LineTimeout < LineEnd

\* The bytes between the echo's newline and the next one, less the
\* carriage returns
Response ==
    LET rs == SelectSeq(SubSeq(line.rx, EchoEnd + 1, LineEnd - 1), LAMBDA r : r # <<13>>)
    IN  [k \in 1 .. Len(rs) |-> rs[k][1]]

\* A minus sign or none, then decimal digits that do not start with 0
Numeral(s) ==
    LET body == IF s # <<>> /\ s[1] = 45 THEN Tail(s) ELSE s
    IN  /\ body # <<>>
        /\ \A k \in 1 .. Len(body) : body[k] \in 48 .. 57
        /\ body[1] # 48

Replied == reply # NoReply

\* C12: read_register(reg) on the serial port writes exactly "R<reg>\n",
\* reads and drops bytes through the first newline, takes the bytes up to the
\* next newline less every carriage return as the response and returns it as
\* an integer, or as text for the serial-number register; a read(1) that
\* returns nothing in either phase makes it return -1 at once.  A response
\* that is no numeral raises ValueError instead.
C12_SerialReadProtocol ==
    Replied =>
      /\ reply.tx = <<82>> \o (IF line.reg = 17 THEN <<49, 55>> ELSE <<50, 52, 56>>) \o <<10>>
      /\ IF EchoTimedOut
         THEN reply.res.out = "int" /\ reply.res.val = -1 /\ reply.reads = EchoTimeout
         ELSE IF LineTimedOut
         THEN reply.res.out = "int" /\ reply.res.val = -1 /\ reply.reads = LineTimeout
         ELSE /\ reply.reads = LineEnd
              /\ IF line.reg = REGISTER_SERIAL_NUMBER
                 THEN /\ reply.res.out \in {"text", "raise"}
                      /\ reply.res.out = "text" => reply.res.val = Response
                      /\ reply.res.out = "raise" => \E k \in 1 .. Len(Response) : Response[k] > 127
                 ELSE /\ reply.res.out \in {"int", "raise"}
                      /\ Numeral(Response) => reply.res.out = "int"
                      /\ reply.res.out = "int" => Numeral(Response) /\ Str(reply.res.val) = Response

\* C12 witness: the echo "x\n" was dropped and the response "1\r\n" came
\* back as the integer 1 after five reads.
C12_Witness ==
    /\ Replied
    /\ line.reg = REGISTER_PWM_PERIOD
    /\ line.rx = <<<<120>>, <<10>>, <<49>>, <<13>>, <<10>>>>
    /\ reply.reads = 5
    /\ reply.res.out = "int" /\ reply.res.val = 1

----------------------------------------------------------------------------
(* The register channel of both transports and the device behind it *)

\* The PWM period a device falls back to when 0 is written (25 kHz)
DefaultPeriod == 640

\* The text of the serial-number register
SerialText == <<120, 49>>

\* What the device holds in a register
RegValue(dev, reg) ==
    IF reg = REGISTER_PWM_PERIOD THEN dev.period
    ELSE IF reg \in {REGISTER_TACHOMETER1 + i * 16 : i \in 0 .. 2} THEN dev.tach
    ELSE 0

\* The device after a register write reached it; a period of 0 stands for
\* the default, which the device either puts in its place or not (keeps)
DeviceWrite(dev, reg, val, keeps) ==
    IF reg # REGISTER_PWM_PERIOD THEN dev
    ELSE [dev EXCEPT !.period = IF val = 0 /\ ~keeps THEN DefaultPeriod ELSE val]

\* A byte string as the read(1) results it arrives in
Reads(bs) == [k \in 1 .. Len(bs) |-> <<bs[k]>>]

\* The serial device's answer to "R<reg>\n": the echoed command, then the
\* value as a line of text
SerialReply(dev, reg) ==
    Reads(ReadCommand(reg)
          \o (IF reg = REGISTER_SERIAL_NUMBER THEN SerialText ELSE Str(RegValue(dev, reg)))
          \o <<13, 10>>)

\* The data stage of the USB device's answer: the text of the serial number,
\* any other register as 16 bits, low byte first
UsbReply(dev, reg) ==
    IF reg = REGISTER_SERIAL_NUMBER THEN SerialText
    ELSE <<RegValue(dev, reg) % 256, (RegValue(dev, reg) \div 256) % 256>>

\* UsbFanDevice.read_register(reg, length), data = bytes(ctrl_transfer(...))
usb_read_register(reg, data) ==
    IF reg = REGISTER_SERIAL_NUMBER THEN DecodeAscii(data)
    ELSE IF Len(data) = 2 THEN [out |-> "int", val |-> data[1] + data[2] * 256]
    ELSE [out |-> "bytes", val |-> data]

\* SerialFanDevice.write_register(reg, value): the command goes out and the
\* echo is read up to its newline or the first empty read; nothing is returned
serial_write_register(reg, value, rx) ==
    [tx |-> WriteCommand(reg, value), reads |-> SkipEcho(rx, 1).k]

Raise(name) == [out |-> "raise", val |-> name]
Returns(out, val) == [out |-> out, val |-> val]
ReturnsNone == [out |-> "none", val |-> None]

\* dev.read_register(reg, length) on a channel of kind k; ok tells whether
\* the transfer goes through: a serial device that does not answer leaves
\* every read(1) empty, a failed control transfer raises USBError
ChanRead(k, reg, dev, ok) ==
    IF k = "serial"
    THEN serial_read_register(reg, IF ok THEN SerialReply(dev, reg) ELSE <<>>).res
    ELSE IF ok THEN usb_read_register(reg, UsbReply(dev, reg)) ELSE Raise("USBError")

\* dev.write_register(reg, val) on a channel of kind k, after the transfers
\* xfers: the serial variant returns whether the echo came or not
ChanWrite(k, reg, val, dev, env, xfers) ==
    [res |-> IF k = "usb" /\ ~env.wr THEN Raise("USBError") ELSE ReturnsNone,
     xfers |-> Append(xfers, Wr(reg, val)),
     writes |-> IF env.wr THEN <<Wr(reg, val)>> ELSE <<>>,
     dev |-> IF env.wr THEN DeviceWrite(dev, reg, val, dev.keeps) ELSE dev]

\* A call that ended before any write
Ended(res, xfers, dev) == [res |-> res, xfers |-> xfers, writes |-> <<>>, dev |-> dev]

----------------------------------------------------------------------------
(* FanDevice: the facade, on a channel of either kind *)

\* A frequency as the command line gives it (type=float): the double
\* nearest to the decimal num * 10^exp10, num >= 0
Hz(num, exp10) == [num |-> num, den |-> 1, exp10 |-> exp10]

\* The double 16000000 / N, N >= 1
HzOfPeriod(N) == [num |-> 16000000, den |-> N, exp10 |-> 0]

RECURSIVE NumDigits(_)
NumDigits(n) == IF n < 10 THEN 1 ELSE 1 + NumDigits(n \div 10)

RECURSIVE Pow10(_)
Pow10(k) == IF k = 0 THEN 1 ELSE 10 * Pow10(k - 1)

\* The first nine digits of n, zeros after them where n has fewer
Lead9(n) == IF NumDigits(n) > 9 THEN n \div 10 ELSE n * Pow10(9 - NumDigits(n))

\* num * 10^exp10 is at most m9 * 10^(p - 8), m9 of nine digits
AtMost(freq, p, m9) ==
    LET lead == freq.exp10 + NumDigits(freq.num) - 1
    IN  lead < p \/ (lead = p /\ Lead9(freq.num) <= m9)

\* The float is 0.0: the decimal is zero or no more than half the smallest
\* double, 2.4703282292e-324
FloatIsZero(freq) == freq.num = 0 \/ AtMost(freq, -324, 247032822)

\* 16000000.0 / freq overflows to inf: freq is at most 8.9002954340288e-302,
\* the quotient beyond the largest double
QuotientIsInf(freq) == ~FloatIsZero(freq) /\ AtMost(freq, -302, 890029543)

\* n * 10^k, or 32000001 when that is more than 32000000
RECURSIVE Scaled(_, _)
Scaled(n, k) ==
    IF k = 0 THEN n
    ELSE IF n > 3200000 THEN 32000001
    ELSE Scaled(n * 10, k - 1)

\* 10 * r = digit * m + rem for 0 <= r < m, by ten additions that stay
\* below m
RECURSIVE TimesTen(_, _, _, _, _)
TimesTen(r, m, i, digit, rem) ==
    IF i = 0 THEN [digit |-> digit, rem |-> rem]
    ELSE IF rem >= m - r THEN TimesTen(r, m, i - 1, digit + 1, rem - (m - r))
    ELSE TimesTen(r, m, i - 1, digit, rem + r)

\* Long division: q + r / m is now 10^k times what it was; a q above
\* 0xffff stays 65536
RECURSIVE Shifted(_, _, _, _)
Shifted(q, r, m, k) ==
    IF k = 0 \/ q > 65535 THEN [q |-> IF q > 65535 THEN 65536 ELSE q, r |-> r]
    ELSE LET t == TimesTen(r, m, 10, 0, 0)
         IN  Shifted(10 * q + t.digit, t.rem, m, k - 1)

\* round(q + r / m): to the nearest integer, a tie to the even one
RoundUp(q, r, m) ==
    IF r < m - r THEN q
    ELSE IF r > m - r THEN q + 1
    ELSE IF q % 2 = 0 THEN q ELSE q + 1

\* round(16000000.0 / freq) for a float that is not 0.0 and a quotient that
\* is finite; 65536 stands for every value above 0xffff, which line 96
\* tells from the others and nothing else reads.  The double quotient
\* rounds as the exact one does for the frequencies Hz and HzOfPeriod give.
RoundPeriod(freq) ==
    IF freq.den # 1 THEN (IF freq.den > 65535 THEN 65536 ELSE freq.den)
    ELSE IF freq.exp10 >= 0
    THEN LET d == Scaled(freq.num, freq.exp10)
         IN  IF d > 32000000 THEN 0 ELSE
             LET v == PyRound(16000000, d) IN IF v > 65535 THEN 65536 ELSE v
    ELSE LET s == Shifted(16000000 \div freq.num, 16000000 % freq.num, freq.num,
                          0 - freq.exp10)
             v == RoundUp(s.q, s.r, freq.num)
         IN  IF v > 65535 THEN 65536 ELSE v

\* round(n / d) for a divisor of either sign
RoundQuot(n, d) == IF d < 0 THEN PyRound(0 - n, 0 - d) ELSE PyRound(n, d)

\* set_speed with the fans' duty registers taken as one apart
set_speedNextRegister(k, speed, index, dev, env) ==
    LET max_duty == ChanRead(k, REGISTER_PWM_PERIOD, dev, env.rd)
        xfers == <<Rd(REGISTER_PWM_PERIOD)>>
    IN  IF max_duty.out = "raise" THEN Ended(max_duty, xfers, dev)
        ELSE ChanWrite(k, REGISTER_PWM_DUTY1 + index,
                       PyRound(max_duty.val * speed, 100), dev, env, xfers)

\* FanDevice.set_speed(speed, index)
set_speed(k, speed, index, dev, env) ==
    LET max_duty == ChanRead(k, REGISTER_PWM_PERIOD, dev, env.rd)
        xfers == <<Rd(REGISTER_PWM_PERIOD)>>
    IN  IF max_duty.out = "raise" THEN Ended(max_duty, xfers, dev)
        ELSE ChanWrite(k, REGISTER_PWM_DUTY1 + index * 16,
                       PyRound(max_duty.val * speed, 100), dev, env, xfers)

\* FanDevice.get_speed(index)
get_speed(k, index, dev, env) ==
    Ended(ChanRead(k, REGISTER_TACHOMETER1 + index * 16, dev, env.rd),
          <<Rd(REGISTER_TACHOMETER1 + index * 16)>>, dev)

\* FanDevice.set_frequency(freq)
set_frequency(k, freq, dev, env) ==
    IF FloatIsZero(freq) THEN Ended(Raise("ZeroDivisionError"), <<>>, dev)
    ELSE IF QuotientIsInf(freq) THEN Ended(Raise("OverflowError"), <<>>, dev)
    ELSE LET max_duty == RoundPeriod(freq)
         IN  ChanWrite(k, REGISTER_PWM_PERIOD, IF max_duty > 65535 THEN 0 ELSE max_duty,
                       dev, env, <<>>)

\* get_frequency without the rounding to 2 places: the quotient cut to Hz
get_frequencyWhole(k, dev, env) ==
    LET max_duty == ChanRead(k, REGISTER_PWM_PERIOD, dev, env.rd)
        xfers == <<Rd(REGISTER_PWM_PERIOD)>>
    IN  IF max_duty.out = "raise" THEN Ended(max_duty, xfers, dev)
        ELSE IF max_duty.val = 0 THEN Ended(Raise("ZeroDivisionError"), xfers, dev)
        ELSE Ended(Returns("float", 100 * (16000000 \div max_duty.val)), xfers, dev)

\* FanDevice.get_frequency(): the float it returns, in hundredths of a Hz
get_frequency(k, dev, env) ==
    LET max_duty == ChanRead(k, REGISTER_PWM_PERIOD, dev, env.rd)
        xfers == <<Rd(REGISTER_PWM_PERIOD)>>
    IN  IF max_duty.out = "raise" THEN Ended(max_duty, xfers, dev)
        ELSE IF max_duty.val = 0 THEN Ended(Raise("ZeroDivisionError"), xfers, dev)
        ELSE Ended(Returns("float", RoundQuot(1600000000, max_duty.val)), xfers, dev)

\* FanDevice.set_led_mode(mode)
set_led_mode(k, mode, dev, env) ==
    ChanWrite(k, REGISTER_LED_CONTROL, IndexOf(LED_MODES, mode, 0), dev, env, <<>>)

\* FanDevice.save_config()
save_config(k, dev, env) == ChanWrite(k, REGISTER_CONFIG_CONTROL, 1, dev, env, <<>>)

\* FanDevice.reset(mode)
reset(k, mode, dev, env) ==
    ChanWrite(k, REGISTER_RESET_CONTROL, IndexOf(RESET_MODES, mode, 0) + 1, dev, env, <<>>)

\* dev.read_register(reg, length) and dev.write_register(reg, value)
read_register(k, reg, dev, env) == Ended(ChanRead(k, reg, dev, env.rd), <<Rd(reg)>>, dev)
write_register(k, reg, value, dev, env) == ChanWrite(k, reg, value, dev, env, <<>>)

\* A facade call and its arguments
BaseCall ==
    [op |-> "", speed |-> 0, index |-> 0, freq |-> Hz(1, 0), mode |-> "", reg |-> 0,
     value |-> 0]

\* The call c made on a channel of kind k
FanDeviceCall(k, c, dev, env) ==
    CASE c.op = "set_speed" -> set_speed(k, c.speed, c.index, dev, env)
      [] c.op = "get_speed" -> get_speed(k, c.index, dev, env)
      [] c.op = "set_frequency" -> set_frequency(k, c.freq, dev, env)
      [] c.op = "get_frequency" -> get_frequency(k, dev, env)
      [] c.op = "set_led_mode" -> set_led_mode(k, c.mode, dev, env)
      [] c.op = "save_config" -> save_config(k, dev, env)
      [] c.op = "reset" -> reset(k, c.mode, dev, env)
      [] c.op = "read_register" -> read_register(k, c.reg, dev, env)
      [] c.op = "write_register" -> write_register(k, c.reg, c.value, dev, env)

\* What a call left behind for its caller and on the wire
Outcome(r) == [res |-> r.res, xfers |-> r.xfers, writes |-> r.writes]

\* The same call made on the serial channel and on the USB channel, each in
\* front of its own device; env tells which transfers go through
Apply(c, env) ==
    \E s \in {FanDeviceCall("serial", c, twin.serial, env)},
       u \in {FanDeviceCall("usb", c, twin.usb, env)} :
        /\ call' = [c |-> c, env |-> env, serial |-> Outcome(s), usb |-> Outcome(u)]
        /\ twin' = [twin EXCEPT !.serial = s.dev, !.usb = u.dev]
        /\ UNCHANGED <<line, reply, given, handles>>
        /\ UNCHANGED <<bosVars, comports, cliVars, bootVars>>

SetSpeed(speed, index, env) ==
    \E c \in {[BaseCall EXCEPT !.op = "set_speed", !.speed = speed, !.index = index]} :
        Apply(c, env)

GetSpeed(index, env) ==
    \E c \in {[BaseCall EXCEPT !.op = "get_speed", !.index = index]} : Apply(c, env)

SetFrequency(freq, env) ==
    \E c \in {[BaseCall EXCEPT !.op = "set_frequency", !.freq = freq]} : Apply(c, env)

GetFrequency(env) ==
    \E c \in {[BaseCall EXCEPT !.op = "get_frequency"]} : Apply(c, env)

SetLedMode(mode, env) ==
    \E c \in {[BaseCall EXCEPT !.op = "set_led_mode", !.mode = mode]} : Apply(c, env)

SaveConfig(env) ==
    \E c \in {[BaseCall EXCEPT !.op = "save_config"]} : Apply(c, env)

Reset(mode, env) ==
    \E c \in {[BaseCall EXCEPT !.op = "reset", !.mode = mode]} : Apply(c, env)

ReadRegister(reg, env) ==
    \E c \in {[BaseCall EXCEPT !.op = "read_register", !.reg = reg]} : Apply(c, env)

WriteRegister(reg, value, env) ==
    \E c \in {[BaseCall EXCEPT !.op = "write_register", !.reg = reg, !.value = value]} :
        Apply(c, env)

AllOk == [rd |-> TRUE, wr |-> TRUE]
Envs == [rd : BOOLEAN, wr : BOOLEAN]

\* dev.version_ok() on both channels: SerialFanDevice's is always True
VersionOk ==
    /\ call' = [c |-> [BaseCall EXCEPT !.op = "version_ok"], env |-> AllOk,
                serial |-> [res |-> Returns("bool", TRUE), xfers |-> <<>>, writes |-> <<>>],
                usb |-> [res |-> Returns("bool", version_ok(twin.usb)), xfers |-> <<>>,
                         writes |-> <<>>]]
    /\ UNCHANGED <<twin, line, reply, given, handles>>
    /\ UNCHANGED <<bosVars, comports, cliVars, bootVars>>

----------------------------------------------------------------------------
(* The facade on both transports (SpecFacade) *)

\* A device: its PWM period, its tachometer reading, whether a period of 0
\* written to it reads back as 0, and the protocol version it reports
Device(period, tach, keeps, major, minor) ==
    [period |-> period, tach |-> tach, keeps |-> keeps, major |-> major, minor |-> minor]

\* The same device behind a channel of each kind
Twin(d) == [serial |-> d, usb |-> d]

Speeds == 0 .. 100
SpeedsFew == {0, 1, 50, 99, 100}
Periods == {0, 1, 3, DefaultPeriod, 65535}
FanIndexes == 0 .. 2
Tachs == {1200}
Majors == 0 .. 2
Minors == {0, 255}
LedModeNames == {LED_MODES[k] : k \in 1 .. Len(LED_MODES)}
ResetModeNames == {RESET_MODES[k] : k \in 1 .. Len(RESET_MODES)}
ReadRegs == {REGISTER_PWM_DUTY1, REGISTER_PWM_PERIOD, REGISTER_TACHOMETER1,
             REGISTER_SERIAL_NUMBER}
WriteRegs == {REGISTER_PWM_DUTY1, REGISTER_PWM_PERIOD}
WriteValues == {0, 3, 65535}

\* Frequencies across the range: 16 MHz / N at both ends, a tie of the
\* rounding (6.4 MHz: 2.5), beyond the 16-bit period on either side, the
\* smallest with a finite quotient, one so small that the quotient is no
\* longer finite, and one that is 0.0 as a float
HzFew ==
    {Hz(16000000, 0), HzOfPeriod(65535), Hz(25000, 0), Hz(6400000, 0),
     Hz(245, 0), Hz(244, 0), Hz(24414, -2), Hz(100, 0), Hz(32000000, 0),
     Hz(1000000000, 0), Hz(9, -302), Hz(1, -310), Hz(1, -400)}

\* Four of them for the calls made in any order
HzSome == {Hz(25000, 0), HzOfPeriod(65535), Hz(100, 0), Hz(1, -310)}

InitFacade ==
    /\ \E tach \in Tachs, major \in Majors, minor \in Minors :
          twin = Twin(Device(DefaultPeriod, tach, FALSE, major, minor))
    /\ call = <<>> /\ given = <<>>
    /\ line = <<>> /\ reply = <<>>
    /\ handles = <<>>
    /\ IdleBos /\ IdleCli /\ IdleBoot

NextFacade ==
    \/ \E env \in Envs, speed \in SpeedsFew, index \in FanIndexes : SetSpeed(speed, index, env)
    \/ \E env \in Envs, index \in FanIndexes : GetSpeed(index, env)
    \/ \E env \in Envs, freq \in HzSome : SetFrequency(freq, env)
    \/ \E env \in Envs : GetFrequency(env)
    \/ \E env \in Envs, mode \in LedModeNames : SetLedMode(mode, env)
    \/ \E env \in Envs : SaveConfig(env)
    \/ \E env \in Envs, mode \in ResetModeNames : Reset(mode, env)
    \/ \E env \in Envs, reg \in ReadRegs : ReadRegister(reg, env)
    \/ \E env \in Envs, reg \in WriteRegs, value \in WriteValues :
          WriteRegister(reg, value, env)
    \/ VersionOk

SpecFacade == InitFacade /\ [][NextFacade]_vars

----------------------------------------------------------------------------
(* set_speed at every percentage, on a device of a given period (SpecSpeed) *)

InitSpeed ==
    /\ given \in [speed : Speeds, index : FanIndexes]
    /\ \E period \in Periods, tach \in Tachs :
          twin = Twin(Device(period, tach, TRUE, DEVICE_MAJOR, DEVICE_MINOR))
    /\ call = <<>>
    /\ line = <<>> /\ reply = <<>>
    /\ handles = <<>>
    /\ IdleBos /\ IdleCli /\ IdleBoot

NextSpeed ==
    \/ SetSpeed(given.speed, given.index, AllOk)
    \/ GetSpeed(given.index, AllOk)

SpecSpeed == InitSpeed /\ [][NextSpeed]_vars

----------------------------------------------------------------------------
(* set_frequency then get_frequency over the whole 16-bit range (SpecFreq) *)

\* 16 MHz / N for every period N of 16 bits
HzRange == {HzOfPeriod(N) : N \in 1 .. 65535}

InitFreq ==
    /\ \E keeps \in BOOLEAN, tach \in Tachs :
          /\ twin = Twin(Device(DefaultPeriod, tach, keeps, DEVICE_MAJOR, DEVICE_MINOR))
          /\ \/ given \in HzRange /\ keeps
             \/ given \in HzFew
    /\ call = <<>>
    /\ line = <<>> /\ reply = <<>>
    /\ handles = <<>>
    /\ IdleBos /\ IdleCli /\ IdleBoot

NextFreq ==
    \/ SetFrequency(given, AllOk)
    \/ GetFrequency(AllOk)

SpecFreq == InitFreq /\ [][NextFreq]_vars

----------------------------------------------------------------------------
(* Claims about the facade on both transports (SpecFacade) *)

\* The operations of the facade and of the channel under it
FacadeOps ==
    {"set_speed", "get_speed", "set_frequency", "get_frequency", "set_led_mode", "save_config",
     "reset", "read_register", "write_register"}

\* Two results are the same kind of outcome with the same value
SameResult(a, b) == a.out = b.out /\ a.val = b.val

\* C13: the same facade call on the same device state returns the same value
\* to the caller and applies the same (register, value) writes to the
\* device whether the channel is serial or USB, a transfer that times out
\* or fails included.
C13_TransportIndependent ==
    call # <<>> /\ call.c.op \in FacadeOps =>
        /\ SameResult(call.serial.res, call.usb.res)
        /\ call.serial.writes = call.usb.writes
        /\ twin.serial = twin.usb

\* C13 divergence reached: the period read of set_speed(100, 0) gets no
\* answer. The USB channel raised USBError and wrote nothing; the serial
\* channel took the -1 of the timed-out read for max_duty, wrote the duty -1
\* to the device and returned normally.
C13_Witness ==
    /\ call # <<>>
    /\ call.c.op = "set_speed" /\ call.c.speed = 100 /\ call.c.index = 0
    /\ ~call.env.rd /\ call.env.wr
    /\ call.usb.res = Raise("USBError") /\ call.usb.writes = <<>>
    /\ call.serial.res.out = "none"
    /\ call.serial.writes = <<Wr(REGISTER_PWM_DUTY1, -1)>>

----------------------------------------------------------------------------
(* Claims about transport handles (Spec) *)

\* The k-th event of hs is an open that no later event of hs closes
LeftOpen(hs, k) ==
    /\ hs[k].ev = "open"
    /\ ~(\E j \in k + 1 .. Len(hs) : hs[j] = Closed(hs[k].owner))

\* C14: when the program has exited, on whatever path, every serial handle
\* opened by a register channel or by the serial rebooter has been closed.
C14_HandlesClosedAtExit ==
    pc = "exit" => \A k \in 1 .. Len(handles) : ~LeftOpen(handles, k)

\* C14 divergence reached: `--serial-port PORT upload FILE` ended after the
\* wait for the bootloader port was interrupted, and the handle that
\* SerialFanDevice opened was never closed.
C14_Witness ==
    /\ pc = "exit"
    /\ opts.serial_port /\ opts.command = "upload"
    /\ interrupted
    /\ handles = <<Opened("SerialFanDevice")>>

----------------------------------------------------------------------------
(* Claims about set_frequency and get_frequency (SpecFreq) *)

Abs(x) == IF x < 0 THEN 0 - x ELSE x

\* get_frequency was just called right after set_frequency(given)
RoundTrip == call # <<>> /\ call.c.op = "set_frequency" /\ call'.c.op = "get_frequency"

\* 100 * N * (f - hz) for hz = 16 MHz / N and a float f given in hundredths
OffBy(f, N) == f.val * N - 1600000000

\* C15 amended: for hz = 16 MHz / N with N in 1..65535, set_frequency(hz)
\* writes the period N, and get_frequency() on a device that returns it
\* gives hz rounded to two decimal places: |f - hz| <= 0.005.
C15_RoundTripToHundredths ==
    [][RoundTrip /\ given \in HzRange =>
          \A k \in {"serial", "usb"} :
              /\ call[k].writes = <<Wr(REGISTER_PWM_PERIOD, given.den)>>
              /\ call'[k].res.out = "float"
              /\ 2 * Abs(OffBy(call'[k].res, given.den)) <= given.den]_vars

\* C15: for hz = 16 MHz / N with N in 1..65535, set_frequency(hz) followed
\* by get_frequency() on a device that returns the written period gives a
\* value f with |f - hz| <= hz / 65535.
C15_RoundTripWithinOnePart ==
    [][RoundTrip /\ given \in HzRange =>
          \A k \in {"serial", "usb"} :
              /\ call'[k].res.out = "float"
              /\ 65535 * Abs(OffBy(call'[k].res, given.den)) <= 1600000000]_vars

\* C15 witness: 16 MHz / 65535 = 244.1443 Hz was set and read back as
\* 244.14 Hz, more than 244.1443 / 65535 = 0.0037 Hz away
C15_Witness ==
    /\ given = HzOfPeriod(65535)
    /\ twin.usb.period = 65535 /\ twin.serial.period = 65535
    /\ call # <<>> /\ call.c.op = "get_frequency"
    /\ call.usb.res = Returns("float", 24414)
    /\ call.serial.res = Returns("float", 24414)

\* The period the statement asks set_frequency(freq) to write: the rounded
\* quotient, 0 in its place when that is beyond 16 bits
PeriodFor(freq) ==
    IF FloatIsZero(freq) \/ QuotientIsInf(freq) THEN 0
    ELSE IF RoundPeriod(freq) > 65535 THEN 0 ELSE RoundPeriod(freq)

\* C16: for every positive hz, set_frequency(hz) issues exactly one write,
\* to the PWM period register, of round(16 MHz / hz) when that is at most
\* 0xffff and of 0 when it is more, and does not fail.
C16_OneWriteInRange ==
    call # <<>> /\ call.c.op = "set_frequency" /\ ~FloatIsZero(call.c.freq) =>
        \A k \in {"serial", "usb"} :
            /\ call[k].res.out = "none"
            /\ call[k].xfers = <<Wr(REGISTER_PWM_PERIOD, PeriodFor(call.c.freq))>>
            /\ PeriodFor(call.c.freq) \in 0 .. 65535

\* C16 divergence reached: set_frequency(1e-310) raised OverflowError out of
\* round() and issued no write
C16_Witness ==
    /\ call # <<>> /\ call.c.op = "set_frequency"
    /\ call.c.freq = Hz(1, -310)
    /\ call.usb.res = Raise("OverflowError") /\ call.usb.xfers = <<>>
    /\ call.serial.res = Raise("OverflowError") /\ call.serial.xfers = <<>>

\* round(16 MHz / freq) is finite and beyond the 16-bit period register
OutOfRange(freq) ==
    ~FloatIsZero(freq) /\ ~QuotientIsInf(freq) /\ RoundPeriod(freq) > 65535

\* C17: for hz with round(16 MHz / hz) > 65535, set_frequency(hz) followed
\* by get_frequency() returns normally with the frequency of the device's
\* default period, also when the period register reads back the 0 that
\* set_frequency wrote.
C17_DefaultAfterOutOfRange ==
    [][RoundTrip /\ OutOfRange(given) =>
          \A k \in {"serial", "usb"} :
              /\ call'[k].res.out = "float"
              /\ call'[k].res.val = RoundQuot(1600000000, DefaultPeriod)]_vars

\* C17 divergence reached: set_frequency(100) wrote 0, the period register
\* read back 0 and get_frequency raised ZeroDivisionError
C17_Witness ==
    /\ given = Hz(100, 0)
    /\ twin.usb.period = 0 /\ twin.serial.period = 0
    /\ call # <<>> /\ call.c.op = "get_frequency"
    /\ call.usb.res = Raise("ZeroDivisionError")
    /\ call.serial.res = Raise("ZeroDivisionError")

----------------------------------------------------------------------------
(* Claims about set_speed (SpecSpeed) *)

\* The value of the last transfer of a call
Written(r) == r.xfers[Len(r.xfers)].val

\* C18: set_speed(p, i) with 0 <= p <= 100 and i in 0..2 reads the PWM
\* period register once for max_duty and then writes exactly one value, to
\* register 0x10 + i * 0x10; for the same max_duty the duty written is no
\* less than the one written for any smaller p, it is 0 for p = 0 and
\* max_duty for p = 100.
C18_SetSpeedDuty ==
    call # <<>> /\ call.c.op = "set_speed" =>
        \A k \in {"serial", "usb"} :
            LET p == call.c.speed
                i == call.c.index
                max_duty == twin[k].period
                duty == Written(call[k])
            IN  /\ call[k].res.out = "none"
                /\ Len(call[k].xfers) = 2
                /\ call[k].xfers[1] = Rd(REGISTER_PWM_PERIOD)
                /\ call[k].xfers[2] = Wr(16 + i * 16, duty)
                /\ call[k].writes = <<call[k].xfers[2]>>
                /\ p = 0 => duty = 0
                /\ p = 100 => duty = max_duty
                /\ \A q \in Speeds :
                      q <= p => Written(set_speed(k, q, i, twin[k], AllOk)) <= duty

\* C18 witness: set_speed(100, 2) on a device of period 65535 read the
\* period and wrote 65535 to register 0x30, on either transport
C18_Witness ==
    /\ call # <<>> /\ call.c.op = "set_speed"
    /\ call.c.speed = 100 /\ call.c.index = 2
    /\ twin.usb.period = 65535
    /\ call.usb.xfers = <<Rd(REGISTER_PWM_PERIOD), Wr(48, 65535)>>
    /\ call.serial.xfers = call.usb.xfers

----------------------------------------------------------------------------
(* Claims about version_ok (SpecFacade) *)

\* C19: version_ok() of a USB fan device is true exactly when the major it
\* reports is the required one and the minor it reports is not below the
\* required one (required: 1.0): 1.0 passes, major 2 fails whatever the
\* minor, a minor below the required one fails.
C19_VersionGate ==
    call # <<>> /\ call.c.op = "version_ok" =>
        LET major == twin.usb.major
            minor == twin.usb.minor
            ok == call.usb.res.val
        IN  /\ call.usb.res.out = "bool"
            /\ ok <=> (major = 1 /\ minor >= 0)
            /\ major = 1 /\ minor = 0 => ok
            /\ major = 2 => ~ok
            /\ minor < 0 => ~ok

\* C19 witness: version_ok() was asked of a device reporting 2.255 and
\* answered False
C19_Witness ==
    /\ call # <<>> /\ call.c.op = "version_ok"
    /\ twin.usb.major = 2 /\ twin.usb.minor = 255
    /\ call.usb.res = Returns("bool", FALSE)

----------------------------------------------------------------------------
(* Claims about enumeration past unusable devices (Spec) *)

\* A device the enumeration has to pass over: below USB 2.01, BOS transfer
\* failing, or no capability of the fan's UUID in its BOS
PassedOver(d) == d.bcdUSB < 513 \/ ~d.xferOk \/ Payloads(d.layout) = <<>>

\* A device that exposes the fan capability: not passed over, and a payload
\* that holds the minor, the major and the interface index
Exposes(d) ==
    /\ ~PassedOver(d)
    /\ \E k \in 1 .. Len(Payloads(d.layout)) : Len(Payloads(d.layout)[k]) >= 3

\* The bus positions of the descriptors in fans
DevsIn(fans) == {fans[k].dev : k \in 1 .. Len(fans)}

\* C20: find_fan_devs with no index passes over a device below USB 2.01,
\* one whose BOS transfer fails and one without the capability, without an
\* error, and returns every other device that exposes the capability
\* wherever the passed-over devices sit in the enumeration order.
C20_EnumerationRecovers ==
    [][pc = "parsed" /\ ~opts.serial_port /\ opts.index = None =>
          /\ pc' \in {"dispatch", "exit"}
          /\ pc' = "exit" => rc' = 0 /\ devs' = <<>>
          /\ \A d \in 1 .. Len(attached) :
                /\ PassedOver(attached[d]) => d \notin DevsIn(devs')
                /\ Exposes(attached[d]) => d \in DevsIn(devs')]_vars

\* C20 witness: a device whose BOS transfer fails sits before a fan on the
\* bus, and the enumeration returned the descriptors of the fan alone
C20_Witness ==
    /\ Enumerated /\ opts.index = None
    /\ Len(attached) = 2
    /\ ~attached[1].xferOk /\ Exposes(attached[2])
    /\ DevsIn(devs) = {2}

----------------------------------------------------------------------------
(* UsbFanDevice: the control transfers on the wire (SpecUsb) *)

\* The setup packet of dev.ctrl_transfer(bmRequestType, bRequest, wValue,
\* wIndex, data_or_wLength)
CtrlTransfer(bmRequestType, bRequest, wValue, wIndex, wLength) ==
    [bmRequestType |-> bmRequestType, bRequest |-> bRequest, wValue |-> wValue,
     wIndex |-> wIndex, wLength |-> wLength]

\* read_register with the register passed in wValue
usb_read_transfersInValue(iface, reg, length) == <<CtrlTransfer(193, 0, reg, iface, length)>>

\* The transfers of UsbFanDevice.read_register(reg, length):
\* ctrl_transfer(0xC1, reg, 0, self._iface, length)
usb_read_transfers(iface, reg, length) == <<CtrlTransfer(193, reg, 0, iface, length)>>

\* The transfers of UsbFanDevice.write_register(reg, value):
\* ctrl_transfer(0x41, reg, value, self._iface, 0)
usb_write_transfers(iface, reg, value) == <<CtrlTransfer(65, reg, value, iface, 0)>>

UsbRegs ==
    {REGISTER_PWM_DUTY1, REGISTER_PWM_PERIOD, REGISTER_TACHOMETER1, REGISTER_RESET_CONTROL,
     REGISTER_SERIAL_NUMBER}
UsbIfaces == 0 .. 3
UsbLengths == {1, 2, 64}
UsbValues == {0, 3, 640, 65535}

\* What the data stage of a read may bring, by its length
UsbData(length) ==
    IF length = 1 THEN {<<>>, <<7>>}
    ELSE IF length = 2 THEN {<<128, 2>>, <<120, 49>>, <<200, 49>>}
    ELSE {<<120, 49, 50>>}

\* One register access on a UsbFanDevice of interface iface; ok tells
\* whether the control transfer goes through
UsbAccess(op, iface, reg, length, value, data, ok) ==
    [op |-> op, iface |-> iface, reg |-> reg, length |-> length, value |-> value,
     data |-> data, ok |-> ok]

InitUsb ==
    /\ \E iface \in UsbIfaces, reg \in UsbRegs, ok \in BOOLEAN :
          \/ \E length \in UsbLengths : \E data \in UsbData(length) :
                given = UsbAccess("read", iface, reg, length, 0, data, ok)
          \/ \E value \in UsbValues :
                given = UsbAccess("write", iface, reg, 0, value, <<>>, ok)
    /\ call = <<>>
    /\ twin = <<>> /\ line = <<>> /\ reply = <<>>
    /\ handles = <<>>
    /\ IdleBos /\ IdleCli /\ IdleBoot

\* UsbFanDevice.read_register(given.reg, given.length)
UsbReadRegister ==
    /\ call = <<>> /\ given.op = "read"
    /\ call' = [transfers |-> usb_read_transfers(given.iface, given.reg, given.length),
                res |-> IF given.ok THEN usb_read_register(given.reg, given.data)
                        ELSE Raise("USBError")]
    /\ UNCHANGED <<given, twin, line, reply, handles>>
    /\ UNCHANGED <<bosVars, comports, cliVars, bootVars>>

\* UsbFanDevice.write_register(given.reg, given.value)
UsbWriteRegister ==
    /\ call = <<>> /\ given.op = "write"
    /\ call' = [transfers |-> usb_write_transfers(given.iface, given.reg, given.value),
                res |-> IF given.ok THEN ReturnsNone ELSE Raise("USBError")]
    /\ UNCHANGED <<given, twin, line, reply, handles>>
    /\ UNCHANGED <<bosVars, comports, cliVars, bootVars>>

NextUsb == UsbReadRegister \/ UsbWriteRegister

SpecUsb == InitUsb /\ [][NextUsb]_vars

----------------------------------------------------------------------------
(* Claims about the USB control transfers (SpecUsb) *)

\* C21 amended: a USB register read issues exactly one control transfer, of
\* bmRequestType 0xC1, with the register address in bRequest, wValue 0, the
\* interface index in wIndex and a data stage of the expected length; a USB
\* register write issues exactly one, of bmRequestType 0x41, with the
\* register in bRequest, the value in wValue, the interface index in wIndex
\* and no data stage.
C21_RegisterInRequest ==
    call # <<>> =>
        /\ Len(call.transfers) = 1
        /\ call.transfers[1].bRequest = given.reg
        /\ call.transfers[1].wIndex = given.iface
        /\ given.op = "read" =>
              /\ call.transfers[1].bmRequestType = 193
              /\ call.transfers[1].wValue = 0
              /\ call.transfers[1].wLength = given.length
        /\ given.op = "write" =>
              /\ call.transfers[1].bmRequestType = 65
              /\ call.transfers[1].wValue = given.value
              /\ call.transfers[1].wLength = 0

\* C21: a USB register read issues exactly one control transfer, of
\* bmRequestType 0xC1, whose wValue carries the register address, whose
\* wIndex is the interface index and whose data stage has the expected
\* length; a write issues exactly one, of bmRequestType 0x41, with wIndex
\* the interface index and no data stage.
C21_RegisterInValue ==
    call # <<>> =>
        /\ Len(call.transfers) = 1
        /\ call.transfers[1].wIndex = given.iface
        /\ given.op = "read" =>
              /\ call.transfers[1].bmRequestType = 193
              /\ call.transfers[1].wValue = given.reg
              /\ call.transfers[1].wLength = given.length
        /\ given.op = "write" =>
              /\ call.transfers[1].bmRequestType = 65
              /\ call.transfers[1].wLength = 0

\* C21 witness: read_register(0x11, 2) on interface 3 went out with
\* bRequest 0x11 and wValue 0, and returned 640 from the bytes 80 02
C21_Witness ==
    /\ call # <<>> /\ given.op = "read"
    /\ given.reg = REGISTER_PWM_PERIOD /\ given.iface = 3 /\ given.length = 2
    /\ call.transfers = <<CtrlTransfer(193, 17, 0, 3, 2)>>
    /\ given.ok /\ given.data = <<128, 2>>
    /\ call.res = Returns("int", 640)

----------------------------------------------------------------------------
(* SerialFanDevice: successive calls on one port (SpecPort) *)

\* Most calls made on the port in one behaviour
MaxCalls == 2

Take(s, n) == SubSeq(s, 1, n)
Drop(s, n) == SubSeq(s, n + 1, Len(s))

\* What the device sends back for a command: the echo of the command, and
\* for a read the value as a line of text
AnswerBytes(dev, c) ==
    IF c.op = "read" THEN ReadCommand(c.reg) \o Str(RegValue(dev, c.reg)) \o <<13, 10>>
    ELSE WriteCommand(c.reg, c.value)

PortRegs == {REGISTER_PWM_PERIOD, REGISTER_TACHOMETER1}
PortWrites == {[op |-> "write", reg |-> REGISTER_PWM_PERIOD, value |-> 3]}
PortReads == {[op |-> "read", reg |-> reg, value |-> 0] : reg \in PortRegs}

\* The port before any call: nothing received (inbuf), nothing on its way
\* from the device (pending)
InitPort ==
    /\ \E tach \in Tachs :
          line = [inbuf |-> <<>>, pending |-> <<>>, calls |-> 0,
                  dev |-> Device(DefaultPeriod, tach, FALSE, DEVICE_MAJOR, DEVICE_MINOR)]
    /\ reply = NoReply
    /\ twin = <<>> /\ call = <<>> /\ given = <<>>
    /\ handles = <<>>
    /\ IdleBos /\ IdleCli /\ IdleBoot

\* One call c on the port. The command reaches the device, whose answer
\* joins what is still on its way; n bytes of that arrive before a read(1)
\* of this call runs into its timeout, the rest arrive later. The call
\* reads from what the port has received and never discards the remainder.
PortCall(c, n) ==
    LET out == line.pending \o AnswerBytes(line.dev, c)
        avail == line.inbuf \o Take(out, n)
        r == IF c.op = "read" THEN serial_read_register(c.reg, Reads(avail))
             ELSE serial_write_register(c.reg, c.value, Reads(avail))
        used == Min(r.reads, Len(avail))
    IN  /\ line.calls < MaxCalls
        /\ line' = [inbuf |-> Drop(avail, used), pending |-> Drop(out, n),
                    calls |-> line.calls + 1,
                    dev |-> IF c.op = "write"
                            THEN DeviceWrite(line.dev, c.reg, c.value, line.dev.keeps)
                            ELSE line.dev]
        /\ reply' = [reads |-> r.reads, c |-> c, tx |-> r.tx,
                     res |-> IF c.op = "read" THEN r.res ELSE ReturnsNone,
                     timeout |-> r.reads > Len(avail),
                     own |-> RegValue(line.dev, c.reg)]
        /\ UNCHANGED <<twin, call, given, handles>>
        /\ UNCHANGED <<bosVars, comports, cliVars, bootVars>>

\* dev.read_register(reg, 2)
PortRead ==
    \E c \in PortReads :
        \E n \in 0 .. Len(line.pending \o AnswerBytes(line.dev, c)) : PortCall(c, n)

\* dev.write_register(reg, value)
PortWrite ==
    \E c \in PortWrites :
        \E n \in 0 .. Len(line.pending \o AnswerBytes(line.dev, c)) : PortCall(c, n)

NextPort == PortRead \/ PortWrite

SpecPort == InitPort /\ [][NextPort]_vars

----------------------------------------------------------------------------
(* Claims about successive serial calls (SpecPort) *)

\* C22: after any sequence of serial read_register and write_register
\* calls on one port, calls that ran into a read timeout while the device's
\* echo or response came late included, a read_register(reg) that does not
\* itself time out returns the device's response to its own R<reg> request,
\* never bytes left over from an earlier command.
C22_PairingSurvivesTimeouts ==
    (reply # NoReply /\ reply.c.op = "read" /\ ~reply.timeout) =>
        /\ reply.res.out = "int"
        /\ reply.res.val = reply.own

\* C22 divergence reached: read_register(0x11) timed out before any byte
\* came; its echo and its response 640 came late, and read_register(0x12)
\* took them for its own: it returned the period 640 for the tachometer
\* register, whose value is 1200.
C22_Witness ==
    /\ reply # NoReply /\ reply.c.op = "read" /\ reply.c.reg = REGISTER_TACHOMETER1
    /\ ~reply.timeout
    /\ line.calls = 2
    /\ reply.own = 1200
    /\ reply.res.out = "int" /\ reply.res.val = 640

----------------------------------------------------------------------------
(* Claims about the duty set_speed writes (SpecFacade) *)

\* C23: for every percent in 0..100 and every outcome of the period read,
\* the sentinel of a serial timeout included, set_speed writes no duty
\* outside 0..0xffff.
C23_DutyInRange ==
    call # <<>> /\ call.c.op = "set_speed" =>
        \A k \in {"serial", "usb"} :
            \A j \in 1 .. Len(call[k].xfers) :
                call[k].xfers[j].op = "write" => call[k].xfers[j].val \in 0 .. 65535

\* C23 divergence reached: set_speed(99, 1) on the serial channel, the
\* period read timing out, sent the duty -1 to register 0x20
C23_Witness ==
    /\ call # <<>> /\ call.c.op = "set_speed"
    /\ call.c.speed = 99 /\ call.c.index = 1
    /\ ~call.env.rd
    /\ call.serial.xfers = <<Rd(REGISTER_PWM_PERIOD), Wr(32, -1)>>

----------------------------------------------------------------------------
(* Claims about the `before` set of get_bootloader_port (SpecBoot) *)

\* get_bootloader_port is inside its polling loop or has just left it
Polling == up.bootloader_port = NoPort /\ bpc \in {"poll", "sleep", "notfound", "flash"}

\* C24: once taken, `before` only shrinks: at every poll it is a subset of
\* the snapshot taken before the reboot and holds exactly the pairs of that
\* snapshot that every completed poll has seen.  So a port of that snapshot
\* that a poll did not see and that a later poll sees again, with the same
\* path and hardware id, makes that poll return: its own path if no other
\* new port stands before it in comports().
C24_BeforeOnlyShrinks ==
    /\ [](Polling => /\ before \subseteq history.initial
                     /\ before = history.initial \ history.absent)
    /\ [][(bpc = "poll" \/ bpc = "sleep") => before' \subseteq before]_vars
    /\ [][(bpc = "poll" /\ bpc' # "interrupted"
             /\ UsbPorts(snapshot') \cap history.absent # {})
            => /\ bpc' = "flash"
               /\ \E k \in NewAt(snapshot', before) :
                     /\ port' = snapshot'[k].device
                     /\ \A j \in NewAt(snapshot', before) : k <= j]_vars

\* C24 witness: before = {(p1, app)} at first; the first poll saw no port,
\* the second saw (p1, app) again, alone, and returned p1.
C24_Witness ==
    /\ bpc = "flash" /\ up.bootloader_port = NoPort
    /\ history.initial = {<<"p1", <<"USB", "app">>>>}
    /\ history.absent = {<<"p1", <<"USB", "app">>>>}
    /\ before = {}
    /\ snapshot = <<[device |-> "p1", hwid |-> <<"USB", "app">>]>>
    /\ port = "p1"
    /\ polls = 2

----------------------------------------------------------------------------
(* get_bootloader_port with the ports of the machine followed (SpecWait) *)

\* What comports() returns while the call waits: nothing, the application
\* port, the bootloader on its path or on another, beside a non-USB port
WaitLists ==
    {<<>>,
     <<Port("p1", "USB", "app")>>,
     <<Port("p1", "USB", "boot")>>,
     <<Port("p1", "ACPI", "uart"), Port("p2", "USB", "boot")>>,
     <<Port("p1", "USB", "app"), Port("p2", "USB", "boot")>>}

\* opts.timeout: None, or one whose deadline MaxPolls polls can pass when
\* every sleep takes a tick
WaitTimeouts == {None} \cup (0 .. MaxPolls - 2)

InitWait ==
    /\ up \in { a \in UploadArgs : a.bootloader_port = NoPort /\ a.timeout \in WaitTimeouts }
    /\ comports \in WaitLists
    /\ bpc = "snap" /\ port = NoPort
    /\ before = {} /\ snapshot = <<>> /\ history = NoHistory /\ start_time = None
    /\ reboots = 0 /\ polls = 0 /\ sleeps = 0
    /\ now \in 0 .. 1
    /\ interrupted = FALSE /\ flashes = <<>>
    /\ attached = <<>> /\ argv = <<>> /\ opts = <<>> /\ pc = "upload" /\ devs = <<>>
    /\ cur = 0 /\ ops = <<>> /\ skipped = <<>> /\ rc = None
    /\ IdleBos
    /\ IdleChan
    /\ handles = <<>>

\* A port is plugged in, removed or re-enumerated while the call waits
Replug ==
    /\ pc = "upload" /\ bpc \in {"snap", "reboot", "poll", "sleep"}
    /\ comports' \in WaitLists \ {comports}
    /\ UNCHANGED <<bosVars, cliVars, bootVars, chanVars, handles>>

\* The statement get_bootloader_port is at, run on what comports() returns
\* now; time.sleep(0.1) lets the clock advance
WaitStep ==
    \/ SnapshotBefore(comports)
    \/ Reboot
    \/ PollFound(comports)
    \/ \E dt \in Ticks : now + dt <= MaxTime /\ PollNone(comports, dt)
    \/ \E dt \in 1 .. MaxDt : now + dt <= MaxTime /\ Sleep(dt)

NextWait ==
    \/ WaitStep
    \/ UploadTimedOut
    \/ Interrupt
    \/ Flash
    \/ Replug

\* The interpreter goes on with the statement it is at
SpecWait == InitWait /\ [][NextWait]_vars /\ WF_vars(WaitStep)

----------------------------------------------------------------------------
(* Claims about the end of the wait (SpecWait) *)

\* get_bootloader_port is over: it returned a path or None, or was left by
\* KeyboardInterrupt or by the SystemExit of reboot()
WaitOver == bpc \in {"flash", "flashed", "notfound", "exited", "interrupted"}

\* The next poll is due and the bounds of the model let it begin
PollDue == bpc = "poll" \/ (bpc = "sleep" /\ polls < MaxPolls /\ now < MaxTime)

\* C25: with a timeout given and the clock advancing with every sleep,
\* get_bootloader_port ends: it returns a path or None (or is left by an
\* exception).  With or without a timeout, a USB serial port that is not in
\* `before` and stays in comports() until the next poll makes the call
\* return a path; a poll that sees such a port never returns None and never
\* goes to sleep, the deadline having passed or not.
C25_WaitEnds ==
    /\ (bpc = "snap" /\ up.timeout # None) ~> WaitOver
    /\ (PollDue /\ SeesNew(comports, before))
          ~> \/ bpc = "flash" /\ port # NoPort
             \/ ~SeesNew(comports, before)
             \/ bpc = "interrupted"
    /\ [][(bpc = "poll" /\ SeesNew(comports, before))
            => bpc' \in {"poll", "flash", "interrupted"}]_vars
    /\ [](bpc = "flash" => port # NoPort)

\* C25 witness: timeout 1; the deadline passed during the second sleep with
\* no new port seen, the bootloader came up on p1 before the third poll, and
\* that poll returned p1.
C25_Witness ==
    /\ bpc = "flash" /\ up.timeout = 1
    /\ polls = 3 /\ sleeps = 2
    /\ now > start_time + up.timeout
    /\ comports = <<Port("p1", "USB", "boot")>>
    /\ snapshot = comports
    /\ port = "p1"

====
